---- MODULE Spec2Model ----
(***************************************************************************)
(* A model of the pamphlet generator of src/pamphlet_agent.py and of its   *)
(* Flask front end src/app.py.                                             *)
(*                                                                         *)
(* Strings are sequences of one-character strings.  Lengths are pixels,    *)
(* opacities are hundredths, Python's int(x * c) on a non-negative int x   *)
(* is the floor of the exact product (the two agree for every x below      *)
(* 3000 and every factor the source uses).                                 *)
(***************************************************************************)
EXTENDS Integers, Sequences, FiniteSets, TLC

VARIABLES
    \* ---- the layout engine (PamphletDesigner) ----
    lpc,            \* position inside create_pamphlet / apply_edits / a direct call
    entry,          \* which entry point is running
    image_bytes,    \* the image bytes the entry point was given
    cur_image,      \* the background image the passes are given
    cur_text,       \* the text content mapping
    cur_config,     \* the style configuration
    cur_features,   \* the features list
    cur_edits,      \* the edits mapping apply_edits was given
    installed,      \* font keys that have a loadable candidate file
    calls,          \* the _compose_layout invocations so far, with their results
    ret,            \* what the entry point returned
    saved,          \* what generate_pamphlet did with the pair create_pamphlet returned
    render_args,    \* the arguments of LayoutFormattingAgent.render, when it made the call
    \* ---- colour parsing ----
    cpc,            \* position of the colour scenario
    cv_value,       \* the value handed to _parse_color
    cv_default,     \* the caller-supplied default
    cv_result,      \* what the call produced
    edit_colors,    \* the colour options of an edits map
    palette_out,    \* the palette _edits_to_config / _build_design_config built
    \* ---- the web application ----
    req,            \* per request: the PamphletRequest and the world's answers
    pc,             \* per request: position in the handler / generate_pamphlet
    loc,            \* per request: the locals of generate_pamphlet
    steps,          \* per request: the steps performed so far, in order
    files,          \* the file system: filename -> content
    resp,           \* per request: the HTTP response
    agent,          \* the PamphletAgent: which of its four agents are not None
    \* ---- text measurement and region geometry ----
    mpc,            \* position of the measurement scenario
    m_in,           \* the arguments of the call
    m_out,          \* what the call returned
    \* ---- the text stage: generate_pamphlet_text and ContentEditingAgent.edit ----
    tpc,            \* position of the text scenario
    t_in,           \* the arguments of the call and the answers of Ollama
    t_out,          \* what the call returned
    t_arg,          \* the mapping that was passed to edit, after the call
    t_again,        \* what edit returned when given its own result
    \* ---- one PamphletDesigner instance composing twice ----
    rpc,            \* position of the scenario
    designer,       \* the attributes of the instance
    r_first,        \* the first _compose_layout call and its result
    r_second        \* the second

layoutVars == <<lpc, entry, image_bytes, cur_image, cur_text, cur_config, cur_features,
                cur_edits, installed, calls, ret, saved, render_args>>
colorVars == <<cpc, cv_value, cv_default, cv_result, edit_colors, palette_out>>
appVars == <<req, pc, loc, steps, files, resp, agent>>
measureVars == <<mpc, m_in, m_out>>
textVars == <<tpc, t_in, t_out, t_arg, t_again>>
repeatVars == <<rpc, designer, r_first, r_second>>
vars == <<layoutVars, colorVars, appVars, measureVars, textVars, repeatVars>>

-----------------------------------------------------------------------------
(* Numbers *)

Max(a, b) == IF a >= b THEN a ELSE b
Min(a, b) == IF a <= b THEN a ELSE b

\* int(x * num / den) of Python: truncation toward zero.
Trunc(x, num, den) ==
    IF x >= 0 THEN (x * num) \div den ELSE -(((-x) * num) \div den)

-----------------------------------------------------------------------------
(* Strings *)

IsSpace(c) == c = " "

RECURSIVE LStrip(_)
LStrip(s) == IF s = <<>> THEN s
             ELSE IF IsSpace(Head(s)) THEN LStrip(Tail(s)) ELSE s

RECURSIVE RStrip(_)
RStrip(s) == IF s = <<>> THEN s
             ELSE IF IsSpace(s[Len(s)]) THEN RStrip(SubSeq(s, 1, Len(s) - 1)) ELSE s

\* str.strip()
Strip(s) == RStrip(LStrip(s))

\* str.split(): the maximal runs of non-space characters, in order.
RECURSIVE SplitLoop(_, _, _)
SplitLoop(s, cur, acc) ==
    IF s = <<>> THEN (IF cur = <<>> THEN acc ELSE Append(acc, cur))
    ELSE IF IsSpace(Head(s))
         THEN SplitLoop(Tail(s), <<>>, IF cur = <<>> THEN acc ELSE Append(acc, cur))
         ELSE SplitLoop(Tail(s), Append(cur, Head(s)), acc)

Split(s) == SplitLoop(s, <<>>, <<>>)

\* " ".join(words)
RECURSIVE Join(_)
Join(words) ==
    IF words = <<>> THEN <<>>
    ELSE IF Len(words) = 1 THEN words[1]
    ELSE words[1] \o <<" ">> \o Join(Tail(words))

UpperChar(c) ==
    CASE c = "a" -> "A" [] c = "e" -> "E" [] c = "f" -> "F"
      [] c = "g" -> "G" [] c = "l" -> "L" [] c = "m" -> "M"
      [] c = "o" -> "O" [] c = "p" -> "P" [] c = "r" -> "R"
      [] c = "s" -> "S" [] c = "t" -> "T" [] c = "u" -> "U"
      [] c = "y" -> "Y"
      [] OTHER -> c

\* str.upper()
Upper(s) == [i \in 1..Len(s) |-> UpperChar(s[i])]

-----------------------------------------------------------------------------
(* Fonts and glyph metrics.  A font is its key and its size; the metrics   *)
(* stand for FreeType's: capitals and ascenders reach the cap line, a      *)
(* descender reaches below the base line, a space has no ink.              *)

FontKeys == {"Arial", "Arial-Bold", "Helvetica", "Helvetica-Bold", "Times",
             "Times-Bold", "Georgia", "Georgia-Bold", "Verdana", "Verdana-Bold"}

\* The size of the built-in font ImageFont.load_default() returns.
DefaultFontSize == 10

\* A size that is not positive gets no FreeType font: see font_size_rejected.
load_font(font_key, size, inst) ==
    IF font_key \in FontKeys /\ font_key \in inst /\ size > 0
    THEN [key |-> font_key, size |-> size]
    ELSE [key |-> "default", size |-> DefaultFontSize]

Descenders == {"g", "p", "y"}
Capitals == {"A", "E", "F", "G", "H", "K", "L", "M", "O", "P", "R", "S", "T", "U", "Y"}
Ascenders == Capitals \cup {"l", "f", "t"}
Bullet == "*"

GlyphTop(c, s) == IF c \in Ascenders THEN s \div 5 ELSE (2 * s) \div 5
GlyphBottom(c, s) ==
    IF c \in Descenders THEN (11 * s) \div 10
    ELSE IF c = Bullet THEN (7 * s) \div 10 ELSE (9 * s) \div 10
GlyphAdvance(c, s) == IF IsSpace(c) THEN s \div 4 ELSE s \div 2

Ink(text) == {i \in 1..Len(text) : ~IsSpace(text[i])}

MinOf(S) == CHOOSE x \in S : \A y \in S : x <= y
MaxOf(S) == CHOOSE x \in S : \A y \in S : x >= y

\* bbox[3] - bbox[1] of font.getbbox(text)
TextHeight(font, text) ==
    IF Ink(text) = {} THEN 0
    ELSE MaxOf({GlyphBottom(text[i], font.size) : i \in Ink(text)})
         - MinOf({GlyphTop(text[i], font.size) : i \in Ink(text)})

RECURSIVE SumAdvance(_, _)
SumAdvance(text, s) ==
    IF text = <<>> THEN 0 ELSE GlyphAdvance(Head(text), s) + SumAdvance(Tail(text), s)

\* bbox[2] - bbox[0] of font.getbbox(text), and font.getlength(text)
TextWidth(font, text) == SumAdvance(text, font.size)

-----------------------------------------------------------------------------
(* Mappings with optional keys: dict.get(key, default) *)

Get(m, k, d) == IF k \in DOMAIN m THEN m[k] ELSE d

\* removals.get(field): absent and False are both falsy
Removed(removals, field) == field \in DOMAIN removals /\ removals[field]

-----------------------------------------------------------------------------
(* Colour schemes and the two configuration builders *)

get_color_scheme(scheme) ==
    CASE scheme = "elegant" ->
            [text |-> <<255, 255, 255>>, accent |-> <<255, 215, 0>>,
             cta |-> <<194, 24, 91>>, overlay |-> <<35, 22, 58>>]
      [] scheme = "minimal" ->
            [text |-> <<38, 38, 38>>, accent |-> <<18, 132, 108>>,
             cta |-> <<0, 112, 201>>, overlay |-> <<245, 245, 245>>]
      [] OTHER ->
            [text |-> <<240, 247, 255>>, accent |-> <<111, 203, 255>>,
             cta |-> <<255, 102, 102>>, overlay |-> <<12, 24, 42>>]

\* "show_panel": False of _build_design_config
build_show_panel == FALSE

\* _build_design_config; line_spacing and panel_opacity in hundredths.  The
\* mapping has no text_anchor key.
build_design_config(color_scheme, layout) ==
    LET palette == get_color_scheme(color_scheme) IN
    [layout |-> layout,
     headline_font |-> "Arial-Bold",
     body_font |-> "Arial",
     panel_opacity |-> 0,
     headline_size |-> 70,
     tagline_size |-> 34,
     body_size |-> 28,
     feature_size |-> 26,
     cta_size |-> 34,
     cta_padding |-> <<36, 22>>,
     border_radius |-> 28,
     panel_radius |-> 36,
     panel_shadow |-> 30,
     line_spacing |-> 125,
     text_shadow |-> 30,
     cta_shadow |-> 35,
     colors |-> [text |-> palette.text, accent |-> palette.accent,
                 cta_bg |-> palette.cta, cta_text |-> <<255, 255, 255>>,
                 panel |-> palette.overlay],
     show_panel |-> build_show_panel]

-----------------------------------------------------------------------------
(* _parse_color.  A Python value is a record: type "str" with its           *)
(* characters in s, type "list" with its elements in items, or another      *)
(* type.  A list element is an int (v), a float (v, in tenths), a str (s)   *)
(* or None.  A call either returns a value or raises.                       *)

Returned(v) == [kind |-> "value", value |-> v, exc |-> "none"]
Raised(e) == [kind |-> "raise", value |-> <<>>, exc |-> e]

PyStr(chars) == [type |-> "str", s |-> chars, items |-> <<>>]
PyList(elems) == [type |-> "list", s |-> <<>>, items |-> elems]
PyNone == [type |-> "none", s |-> <<>>, items |-> <<>>]
PyInt(n) == [t |-> "int", v |-> n, s |-> <<>>]
PyFloat(tenths) == [t |-> "float", v |-> tenths, s |-> <<>>]
PyElemStr(chars) == [t |-> "str", v |-> 0, s |-> chars]
PyElemNone == [t |-> "none", v |-> 0, s |-> <<>>]

HexChars == <<"0", "1", "2", "3", "4", "5", "6", "7", "8", "9",
              "a", "b", "c", "d", "e", "f">>
LowerHex(c) ==
    CASE c = "A" -> "a" [] c = "B" -> "b" [] c = "C" -> "c"
      [] c = "D" -> "d" [] c = "E" -> "e" [] c = "F" -> "f" [] OTHER -> c
IsHex(c) == \E i \in 1..Len(HexChars) : HexChars[i] = LowerHex(c)
HexVal(c) == (CHOOSE i \in 1..Len(HexChars) : HexChars[i] = LowerHex(c)) - 1
IsDec(c) == IsHex(c) /\ HexVal(c) <= 9

\* int(two_chars, 16): Python's int accepts surrounding white space and a
\* sign besides the digits; anything else is a ValueError.
int16(two) ==
    LET a == two[1]
        b == two[2]
    IN  IF IsHex(a) /\ IsHex(b) THEN Returned(16 * HexVal(a) + HexVal(b))
        ELSE IF a = "+" /\ IsHex(b) THEN Returned(HexVal(b))
        ELSE IF a = "-" /\ IsHex(b) THEN Returned(-HexVal(b))
        ELSE IF IsSpace(a) /\ IsHex(b) THEN Returned(HexVal(b))
        ELSE IF IsHex(a) /\ IsSpace(b) THEN Returned(HexVal(a))
        ELSE Raised("ValueError")

RECURSIVE DecValue(_, _)
DecValue(digits, acc) ==
    IF digits = <<>> THEN acc
    ELSE DecValue(Tail(digits), 10 * acc + HexVal(Head(digits)))

\* int(text) of a decimal literal: an optional sign, then digits only
int_digits(neg, digits) ==
    IF digits # <<>> /\ \A i \in 1..Len(digits) : IsDec(digits[i])
    THEN Returned(IF neg THEN -DecValue(digits, 0) ELSE DecValue(digits, 0))
    ELSE Raised("ValueError")

int_str(body) ==
    int_digits(body # <<>> /\ Head(body) = "-",
               IF body # <<>> /\ Head(body) \in {"+", "-"} THEN Tail(body) ELSE body)

\* int(c) for one list element
int_of(c) ==
    CASE c.t = "int" -> Returned(c.v)
      [] c.t = "float" -> Returned(Trunc(c.v, 1, 10))
      [] c.t = "str" -> int_str(Strip(c.s))
      [] OTHER -> Raised("TypeError")

RECURSIVE LStripHash(_)
LStripHash(s) == IF s # <<>> /\ Head(s) = "#" THEN LStripHash(Tail(s)) ELSE s

\* tuple(int(c) for c in color_value[:3]): the first element that cannot be
\* converted raises, and nothing catches it
list_color(r, g, b) ==
    IF r.kind = "raise" THEN r
    ELSE IF g.kind = "raise" THEN g
    ELSE IF b.kind = "raise" THEN b
    ELSE Returned(<<r.value, g.value, b.value>>)

\* the try/except ValueError around the three int(value[i:i+2], 16)
hex_triple(r, g, b, default) ==
    IF r.kind = "raise" \/ g.kind = "raise" \/ b.kind = "raise"
    THEN Returned(default)
    ELSE Returned(<<r.value, g.value, b.value>>)

\* value = color_value.strip().lstrip("#"); if len(value) == 6: ...
hex_color(value, default) ==
    IF Len(value) = 6
    THEN hex_triple(int16(SubSeq(value, 1, 2)), int16(SubSeq(value, 3, 4)),
                    int16(SubSeq(value, 5, 6)), default)
    ELSE Returned(default)

parse_color(color_value, default) ==
    IF color_value.type = "list" /\ Len(color_value.items) >= 3
    THEN list_color(int_of(color_value.items[1]), int_of(color_value.items[2]),
                    int_of(color_value.items[3]))
    ELSE IF color_value.type = "str"
    THEN hex_color(LStripHash(Strip(color_value.s)), default)
    ELSE Returned(default)

-----------------------------------------------------------------------------
(* _edits_to_config *)

White == <<255, 255, 255>>
HashWhite == PyStr(<<"#", "f", "f", "f", "f", "f", "f">>)
HashCta == PyStr(<<"#", "f", "f", "6", "4", "6", "4">>)

\* a builder that switches the panel on
show_panel_enabled == TRUE

\* "show_panel": False of _edits_to_config
edits_show_panel == FALSE

\* The palette of _edits_to_config: the four parses in the order the dict
\* display evaluates them; the first that raises ends the call.
palette_of(text, accent, cta_bg, cta_text) ==
    IF text.kind = "raise" THEN text
    ELSE IF accent.kind = "raise" THEN accent
    ELSE IF cta_bg.kind = "raise" THEN cta_bg
    ELSE IF cta_text.kind = "raise" THEN cta_text
    ELSE Returned([text |-> text.value, accent |-> accent.value,
                   cta_bg |-> cta_bg.value, cta_text |-> cta_text.value,
                   panel |-> <<0, 0, 0>>])

edits_palette(edits) ==
    palette_of(parse_color(Get(edits, "bodyColor", HashWhite), White),
               parse_color(Get(edits, "headlineColor", HashWhite), White),
               parse_color(Get(edits, "ctaBgColor", HashCta), <<255, 100, 100>>),
               parse_color(Get(edits, "ctaTextColor", HashWhite), White))

\* The configuration, given the palette, body_size and border_radius
config_of(edits, palette, body, radius) ==
        IF palette.kind = "raise" THEN palette
        ELSE Returned(
          [layout |-> Get(edits, "layout", "centered"),
           text_anchor |-> Get(edits, "textPlacement", "top"),
           headline_font |-> Get(edits, "headlineFont", "Arial-Bold"),
           body_font |-> Get(edits, "bodyFont", "Arial"),
           panel_opacity |->
               Max(0, Min(100, (100 - Get(edits, "backgroundOpacity", 80)) + 15)),
           headline_size |-> Get(edits, "headlineSize", 72),
           tagline_size |-> Max(20, Min(60, body + 6)),
           body_size |-> body,
           feature_size |-> Max(18, body - 2),
           cta_size |-> Max(22, body + 4),
           cta_padding |-> <<32, 18>>,
           border_radius |-> radius,
           panel_radius |-> Max(18, radius + 12),
           panel_shadow |-> Get(edits, "shadowIntensity", 0),
           line_spacing |-> 120,
           text_shadow |-> Get(edits, "textShadow", 0),
           cta_shadow |-> Get(edits, "shadowIntensity", 0),
           colors |-> palette.value,
           show_panel |-> edits_show_panel])

edits_to_config(edits) ==
    config_of(edits, edits_palette(edits), Get(edits, "bodySize", 28),
              Get(edits, "borderRadius", 12))

-----------------------------------------------------------------------------
(* Drawing.  A draw operation on the overlay is a record; a cursor state   *)
(* is the vertical cursor, the operations drawn so far and the blocks      *)
(* whose drawing code has run.                                             *)

DrawOp(op, block, text, x, y, w, h) ==
    [op |-> op, block |-> block, text |-> text, x |-> x, y |-> y, w |-> w, h |-> h]

ShadowOffsets == <<<<-2, 2>>, <<2, 2>>, <<0, 3>>>>

\* The left edge of a box of width w aligned in the region
align_x(align, x_start, width_available, w) ==
    IF align = "left" THEN x_start
    ELSE IF align = "right" THEN x_start + width_available - w
    ELSE x_start + ((width_available - w) \div 2)

\* The three shadow copies and the text itself
text_line_ops(text, block, x, y_pos, text_width, text_height, shadow_intensity) ==
    Append(IF shadow_intensity > 0
           THEN [i \in 1..Len(ShadowOffsets) |->
                   DrawOp("shadow", block, text, x + ShadowOffsets[i][1],
                          y_pos + ShadowOffsets[i][2], text_width, text_height)]
           ELSE <<>>,
           DrawOp("text", block, text, x, y_pos, text_width, text_height))

text_line_measured(text, block, context, align, shadow_intensity, text_width, text_height) ==
    [y |-> context[2] + text_height,
     ops |-> text_line_ops(text, block,
                           align_x(align, context[1], context[3], text_width),
                           context[2], text_width, text_height, shadow_intensity)]

\* _draw_text_line: the new cursor and the operations drawn
draw_text_line(text, font, context, align, shadow_intensity, block) ==
    IF text = <<>> THEN [y |-> context[2], ops |-> <<>>]
    ELSE text_line_measured(text, block, context, align, shadow_intensity,
                            TextWidth(font, text), TextHeight(font, text))

\* The shadow, the pill and the text centred in it
cta_ops(text, config, box_x, box_y, box_width, box_height, text_width, text_height) ==
    (IF config.cta_shadow > 0
     THEN <<DrawOp("cta_shadow", "call_to_action", <<>>, box_x + 3, box_y + 6,
                   box_width, box_height)>>
     ELSE <<>>)
    \o <<DrawOp("cta_box", "call_to_action", <<>>, box_x, box_y, box_width, box_height),
          DrawOp("cta_text", "call_to_action", text,
                 box_x + ((box_width - text_width) \div 2),
                 box_y + ((box_height - text_height) \div 2), text_width, text_height)>>

cta_boxed(text, config, context, align, box_width, box_height, text_width, text_height) ==
    cta_ops(text, config, align_x(align, context[1], context[3], box_width), context[2],
            box_width, box_height, text_width, text_height)

cta_measured(text, config, context, align, text_width, text_height) ==
    cta_boxed(text, config, context, align,
              text_width + config.cta_padding[1] * 2,
              text_height + config.cta_padding[2] * 2, text_width, text_height)

\* _draw_cta: the operations drawn (the method returns nothing)
draw_cta(text, font, config, context, align) ==
    cta_measured(text, config, context, align, TextWidth(font, text), TextHeight(font, text))

\* _draw_panel: the operations drawn
draw_panel(rect, config) ==
    (IF config.panel_shadow > 0
     THEN <<DrawOp("panel_shadow", "panel", <<>>, rect[1], rect[2],
                   rect[3] - rect[1], rect[4] - rect[2])>>
     ELSE <<>>)
    \o <<DrawOp("panel", "panel", <<>>, rect[1], rect[2],
                rect[3] - rect[1], rect[4] - rect[2])>>

-----------------------------------------------------------------------------
(* _wrap_text *)

RECURSIVE wrap_loop(_, _, _, _, _)
wrap_loop(words, lines, current_line, font, max_width) ==
    IF words = <<>>
    THEN (IF current_line # <<>> THEN Append(lines, Join(current_line)) ELSE lines)
    ELSE LET word == Head(words)
             test_line == Join(Append(current_line, word))
         IN  IF TextWidth(font, test_line) <= max_width
             THEN wrap_loop(Tail(words), lines, Append(current_line, word), font, max_width)
             ELSE IF current_line # <<>>
             THEN wrap_loop(Tail(words), Append(lines, Join(current_line)), <<word>>,
                            font, max_width)
             ELSE wrap_loop(Tail(words), Append(lines, word), <<>>, font, max_width)

\* every word on the one line, whatever the width
wrap_text_one_line(text, font, max_width) ==
    IF Split(text) = <<>> THEN <<>> ELSE <<Join(Split(text))>>

\* a wrap that leaves out what does not fit
wrap_text_fitting_only(text, font, max_width) ==
    SelectSeq(wrap_loop(Split(text), <<>>, <<>>, font, max_width),
              LAMBDA line : TextWidth(font, line) <= max_width)

wrap_text(text, font, max_width) == wrap_loop(Split(text), <<>>, <<>>, font, max_width)

-----------------------------------------------------------------------------
(* _estimate_content_height.  The height is a sum of per-block amounts;    *)
(* est_parts gives each block's amount (0 for a block that is skipped) and *)
(* the blocks counted.                                                     *)

Blocks == <<"headline", "tagline", "description", "features", "call_to_action", "custom">>

SampleFeature == <<"*", " ", "S", "a", "m", "p", "l", "e", " ",
                   "f", "e", "a", "t", "u", "r", "e">>
\* the literal "KEY FEATURES" the estimator measures
KEY_FEATURES == <<"K", "E", "Y", " ", "F", "E", "A", "T", "U", "R", "E", "S">>
\* feature_title = "Key Features" of the renderer
feature_title == <<"K", "e", "y", " ", "F", "e", "a", "t", "u", "r", "e", "s">>
Hg == <<"H", "g">>

FirstN(seq, n) == SubSeq(seq, 1, Min(n, Len(seq)))

BlockSet == {Blocks[i] : i \in 1..Len(Blocks)}

\* The condition under which the estimator counts a block
est_on(text_content, features, removals, custom_lines, b) ==
    CASE b = "headline" ->
            Strip(Get(text_content, "headline", <<>>)) # <<>>
            /\ ~Removed(removals, "headline")
      [] b = "tagline" ->
            Strip(Get(text_content, "tagline", <<>>)) # <<>>
            /\ ~Removed(removals, "tagline")
      [] b = "description" ->
            Strip(Get(text_content, "description", <<>>)) # <<>>
            /\ ~Removed(removals, "description")
      [] b = "features" -> features # <<>>
      [] b = "call_to_action" ->
            Strip(Get(text_content, "call_to_action", <<>>)) # <<>>
            /\ ~Removed(removals, "call_to_action")
      [] b = "custom" -> custom_lines # <<>> /\ ~Removed(removals, "custom")

\* What the estimator adds for a block it counts
est_amount(text_content, fonts, nwrapped, per_line, nfeat, ncustom, b) ==
    CASE b = "headline" ->
            Max(0, TextHeight(fonts.headline, Strip(Get(text_content, "headline", <<>>))))
            + Trunc(fonts.headline.size, 8, 100)
      [] b = "tagline" ->
            Max(0, TextHeight(fonts.tagline, Strip(Get(text_content, "tagline", <<>>))))
            + Trunc(fonts.tagline.size, 4, 10)
      [] b = "description" ->
            Max(0, nwrapped * per_line)
            + nwrapped * Trunc(fonts.body.size, 15, 100)
            + Trunc(fonts.body.size, 11, 10)
      [] b = "features" ->
            Trunc(fonts.body.size, 4, 10)
            + Max(0, TextHeight(fonts.tagline, KEY_FEATURES))
            + Trunc(fonts.feature.size, 4, 10)
            + Max(0, nfeat * TextHeight(fonts.feature, SampleFeature))
            + nfeat * Trunc(fonts.feature.size, 3, 10)
            + Trunc(fonts.body.size, 4, 10)
      [] b = "call_to_action" ->
            Max(0, TextHeight(fonts.cta,
                              Upper(Strip(Get(text_content, "call_to_action", <<>>)))))
            + Trunc(fonts.cta.size, 8, 10)
      [] b = "custom" ->
            Max(0, ncustom * per_line) + ncustom * Trunc(fonts.body.size, 2, 10)

est_parts(text_content, fonts, text_area_width, features, removals, custom_lines) ==
    [counted |-> {b \in BlockSet : est_on(text_content, features, removals, custom_lines, b)},
     amount |-> [b \in BlockSet |->
        IF ~est_on(text_content, features, removals, custom_lines, b) THEN 0
        ELSE est_amount(text_content, fonts,
                        Len(wrap_text(Strip(Get(text_content, "description", <<>>)),
                                      fonts.body, text_area_width)),
                        TextHeight(fonts.body, Hg), Len(FirstN(features, 4)),
                        Len(custom_lines), b)]]

RECURSIVE SumOver(_, _)
SumOver(f, seq) == IF seq = <<>> THEN 0 ELSE f[Head(seq)] + SumOver(f, Tail(seq))

estimate_content_height(text_content, fonts, text_area_width, features, removals, custom_lines) ==
    Max(1, SumOver(est_parts(text_content, fonts, text_area_width, features,
                             removals, custom_lines).amount, Blocks))

-----------------------------------------------------------------------------
(* _compose_layout *)

\* The text region of a canvas
full_width(width) == width - (Trunc(width, 8, 100) * 2)

text_area_width(width, layout) ==
    IF layout = "split" THEN Trunc(width, 42, 100) ELSE full_width(width)

layout_align(layout) ==
    CASE layout = "left-aligned" -> "left"
      [] layout = "right-aligned" -> "right"
      [] layout = "split" -> "left"
      [] OTHER -> "center"

\* a region that starts at the left margin in every layout
layout_x_start_at_margin(width, layout) == Trunc(width, 8, 100)

layout_x_start(width, layout) ==
    CASE layout = "centered" -> (width - full_width(width)) \div 2
      [] layout = "right-aligned" -> width - Trunc(width, 8, 100) - full_width(width)
      [] layout = "split" -> width - text_area_width(width, layout) - Trunc(width, 8, 100)
      [] OTHER -> Trunc(width, 8, 100)

geometry_of(height, margin_x, top_margin, bottom_margin, area_width, align, x_start) ==
    [margin_x |-> margin_x, top_margin |-> top_margin,
     bottom_margin |-> bottom_margin, text_area_width |-> area_width,
     align |-> align, x_start |-> x_start,
     panel_rect |-> <<x_start, top_margin, x_start + area_width, height - bottom_margin>>]

Geometry(width, height, layout) ==
    geometry_of(height, Trunc(width, 8, 100), Trunc(height, 8, 100),
                Trunc(height, 12, 100), text_area_width(width, layout),
                layout_align(layout), layout_x_start(width, layout))

\* The five fonts of a configuration: lines 658-664
load_fonts(config, inst) ==
    [headline |-> load_font(config.headline_font, config.headline_size, inst),
     tagline |-> load_font(config.body_font, config.tagline_size, inst),
     body |-> load_font(config.body_font, config.body_size, inst),
     feature |-> load_font(config.body_font, config.feature_size, inst),
     cta |-> load_font(config.headline_font, config.cta_size, inst)]

\* the anchor offsets without the floor at the top margin
start_cursor_unclamped(panel_rect, anchor, estimated_height) ==
    IF anchor = "middle"
    THEN panel_rect[2] + (((panel_rect[4] - panel_rect[2]) - estimated_height) \div 2)
    ELSE IF anchor = "bottom"
    THEN panel_rect[2] + ((panel_rect[4] - panel_rect[2]) - estimated_height)
    ELSE panel_rect[2]

\* ImageFont.truetype(candidate, size) with a size that is not positive:
\* the builds of the imaging library that test the size first raise
\* ValueError, which _load_font does not catch; the others fail in FreeType
\* with OSError, which it catches, and the built-in font is used.  A key
\* without candidates never reaches truetype.
font_size_rejected(config) ==
    \/ /\ config.headline_font \in FontKeys
       /\ config.headline_size <= 0 \/ config.cta_size <= 0
    \/ /\ config.body_font \in FontKeys
       /\ config.tagline_size <= 0 \/ config.body_size <= 0 \/ config.feature_size <= 0

\* The initial cursor: lines 677-684
start_cursor(panel_rect, anchor, estimated_height) ==
    LET panel_height == panel_rect[4] - panel_rect[2] IN
    IF anchor = "middle"
    THEN panel_rect[2] + Max(0, (panel_height - estimated_height) \div 2)
    ELSE IF anchor = "bottom"
    THEN panel_rect[2] + Max(0, panel_height - estimated_height)
    ELSE panel_rect[2]

\* A block's code starts to run: its name and the cursor it starts at
Enter(st, block) == [st EXCEPT !.blocks = Append(@, [name |-> block, y |-> st.y])]
Advance(st, dy) == [st EXCEPT !.y = @ + dy]
Drawn(st, d) == [st EXCEPT !.y = d.y, !.ops = @ \o d.ops]

\* for line in lines: y_cursor = _draw_text_line(...); y_cursor += gap
RECURSIVE draw_lines(_, _, _, _, _, _, _, _)
draw_lines(lines, st, font, region, align, shadow, gap, block) ==
    IF lines = <<>> THEN st
    ELSE draw_lines(Tail(lines),
                    Advance(Drawn(st, draw_text_line(Head(lines), font,
                                                     <<region[1], st.y, region[2]>>,
                                                     align, shadow, block)), gap),
                    font, region, align, shadow, gap, block)

BulletText(feature) == <<Bullet, " ">> \o feature

\* The rendering of the blocks, lines 687-792, one operator per block.  cx
\* holds what the call has computed before the first block; st is the
\* cursor state on entry to the block.
RenderContext(text_content, config, features, fonts, g, removals, custom_lines) ==
    [text_content |-> text_content, config |-> config, features |-> features,
     fonts |-> fonts, g |-> g, removals |-> removals, custom_lines |-> custom_lines,
     line_gap |-> Trunc(config.body_size, config.line_spacing, 100)]

Field(cx, name) == Strip(Get(cx.text_content, name, <<>>))
Region(cx, st) == <<cx.g.x_start, st.y, cx.g.text_area_width>>

\* lines 689-700
render_headline(cx, st) ==
    IF Field(cx, "headline") # <<>> /\ ~Removed(cx.removals, "headline")
    THEN Advance(Drawn(Enter(st, "headline"),
                       draw_text_line(Upper(Field(cx, "headline")), cx.fonts.headline,
                                      Region(cx, st), cx.g.align, cx.config.text_shadow,
                                      "headline")),
                 Trunc(cx.config.headline_size, 8, 100))
    ELSE st

\* lines 703-714
render_tagline(cx, st) ==
    IF Field(cx, "tagline") # <<>> /\ ~Removed(cx.removals, "tagline")
    THEN Advance(Drawn(Enter(st, "tagline"),
                       draw_text_line(Upper(Field(cx, "tagline")), cx.fonts.tagline,
                                      Region(cx, st), cx.g.align, cx.config.text_shadow,
                                      "tagline")),
                 Trunc(cx.config.tagline_size, 4, 10))
    ELSE st

\* lines 717-731
render_description(cx, st) ==
    IF Field(cx, "description") # <<>> /\ ~Removed(cx.removals, "description")
    THEN Advance(draw_lines(wrap_text(Field(cx, "description"), cx.fonts.body,
                                      cx.g.text_area_width),
                            Enter(st, "description"), cx.fonts.body,
                            <<cx.g.x_start, cx.g.text_area_width>>, cx.g.align,
                            cx.config.text_shadow, Trunc(cx.config.body_size, 15, 100),
                            "description"),
                 cx.line_gap)
    ELSE st

\* align if config["layout"] != "centered" else "left"
feature_align(cx) == IF cx.config.layout # "centered" THEN cx.g.align ELSE "left"

bullet_x_start(cx) ==
    IF feature_align(cx) # "right" THEN cx.g.x_start
    ELSE cx.g.x_start + cx.g.text_area_width

\* lines 735-746: the gap before the title, the title, the gap after it
render_feature_title(cx, st) ==
    Advance(Drawn(Advance(st, Trunc(cx.config.body_size, 4, 10)),
                  draw_text_line(Upper(feature_title), cx.fonts.tagline,
                                 <<cx.g.x_start, st.y + Trunc(cx.config.body_size, 4, 10),
                                   cx.g.text_area_width>>,
                                 feature_align(cx), cx.config.text_shadow, "features")),
            Trunc(cx.config.feature_size, 4, 10))

\* lines 734-762
render_features(cx, st) ==
    IF cx.features # <<>>
    THEN Advance(draw_lines([i \in 1..Len(FirstN(cx.features, 4)) |->
                                BulletText(cx.features[i])],
                            render_feature_title(cx, Enter(st, "features")),
                            cx.fonts.feature,
                            <<bullet_x_start(cx), cx.g.text_area_width>>,
                            feature_align(cx), cx.config.text_shadow,
                            Trunc(cx.config.feature_size, 3, 10), "features"),
                 cx.line_gap)
    ELSE st

\* lines 765-777: the cursor moves down by the gap before the pill, and no further
render_cta(cx, st) ==
    IF Field(cx, "call_to_action") # <<>> /\ ~Removed(cx.removals, "call_to_action")
    THEN [Advance(Enter(st, "call_to_action"), Trunc(cx.config.cta_size, 4, 10))
            EXCEPT !.ops = @ \o draw_cta(Upper(Field(cx, "call_to_action")), cx.fonts.cta,
                                         cx.config,
                                         <<cx.g.x_start,
                                           st.y + Trunc(cx.config.cta_size, 4, 10),
                                           cx.g.text_area_width>>,
                                         cx.g.align)]
    ELSE st

\* the custom block without the test of removals.get("custom")
render_custom_unchecked(cx, st) ==
    IF cx.custom_lines # <<>>
    THEN draw_lines(cx.custom_lines,
                    Advance(Enter(st, "custom"), Trunc(cx.config.body_size, 6, 10)),
                    cx.fonts.body, <<cx.g.x_start, cx.g.text_area_width>>, cx.g.align,
                    cx.config.text_shadow, Trunc(cx.config.body_size, 2, 10), "custom")
    ELSE st

\* lines 780-792
render_custom(cx, st) ==
    IF cx.custom_lines # <<>> /\ ~Removed(cx.removals, "custom")
    THEN draw_lines(cx.custom_lines,
                    Advance(Enter(st, "custom"), Trunc(cx.config.body_size, 6, 10)),
                    cx.fonts.body, <<cx.g.x_start, cx.g.text_area_width>>, cx.g.align,
                    cx.config.text_shadow, Trunc(cx.config.body_size, 2, 10), "custom")
    ELSE st

\* the blocks with the custom lines placed before the CTA pill
render_blocks_swapped(cx, st) ==
    render_cta(cx,
      render_custom(cx,
        render_features(cx,
          render_description(cx,
            render_tagline(cx,
              render_headline(cx, st))))))

\* if render_text: the six blocks in the order of the source
render_blocks(cx, st) ==
    render_custom(cx,
      render_cta(cx,
        render_features(cx,
          render_description(cx,
            render_tagline(cx,
              render_headline(cx, st))))))

\* composing onto the caller's image itself, without the copy
base_after_in_place(base_image, ops) ==
    [base_image EXCEPT !.hist = Append(@, [t |-> "overlay", args |-> ops])]

\* image = base_image.copy().convert("RGBA"): the caller's image is left as it is
base_after_compose(base_image, ops) == base_image

\* if config.get("show_panel", False) and config.get("panel_opacity", 0) > 0
panel_ops(config, g) ==
    IF Get(config, "show_panel", FALSE) /\ Get(config, "panel_opacity", 0) > 0
    THEN draw_panel(g.panel_rect, config)
    ELSE <<>>

\* The cursor state before the first block
start_state(config, g, y_start) ==
    [y |-> y_start, ops |-> panel_ops(config, g), blocks |-> <<>>]

\* min(border_radius, min(image.size) // 2), 0 when the corners stay square
rounded_radius(base_image, border_radius) ==
    IF border_radius > 0
    THEN Min(border_radius, Min(base_image.w, base_image.h) \div 2)
    ELSE 0

\* The result of _compose_layout: the composed image together with what the
\* call computed on the way (its locals), for the properties below.
compose_finish(base_image, config, render_text, cx, est, estimated_height, y_start, st) ==
    [composed |-> [base |-> base_image, ops |-> st.ops,
                   rounded |-> rounded_radius(base_image, Get(config, "border_radius", 0))],
     base_after |-> base_after_compose(base_image, st.ops),
     render_text |-> render_text,
     geometry |-> cx.g,
     fonts |-> cx.fonts,
     counted |-> est.counted,
     amount |-> est.amount,
     estimated_height |-> estimated_height,
     y_start |-> y_start,
     y_cursor |-> st.y,
     blocks |-> st.blocks]

compose_render(base_image, config, render_text, cx, est, estimated_height, y_start) ==
    compose_finish(base_image, config, render_text, cx, est, estimated_height, y_start,
                   IF render_text
                   THEN render_blocks(cx, start_state(config, cx.g, y_start))
                   ELSE start_state(config, cx.g, y_start))

compose_cursor(base_image, config, render_text, cx, est, estimated_height) ==
    compose_render(base_image, config, render_text, cx, est, estimated_height,
                   start_cursor(cx.g.panel_rect, Get(config, "text_anchor", "top"),
                                estimated_height))

compose_estimated(base_image, config, render_text, cx, est) ==
    compose_cursor(base_image, config, render_text, cx, est,
                   Max(1, SumOver(est.amount, Blocks)))

compose_measured(base_image, config, render_text, cx) ==
    compose_estimated(base_image, config, render_text, cx,
                      est_parts(cx.text_content, cx.fonts, cx.g.text_area_width,
                                cx.features, cx.removals, cx.custom_lines))

compose_layout(base_image, text_content, config, features, render_text, inst) ==
    compose_measured(base_image, config, render_text,
                     RenderContext(text_content, config, features, load_fonts(config, inst),
                                   Geometry(base_image.w, base_image.h, config.layout),
                                   Get(text_content, "removeLines", <<>>),
                                   Get(text_content, "customText", <<>>)))

-----------------------------------------------------------------------------
(* Images and the background transforms of apply_edits.  An image is the   *)
(* picture it was decoded from, its size and the transforms applied since. *)

Tr(t, args) == [t |-> t, args |-> args]

Picture(id, w, h) == [id |-> id, w |-> w, h |-> h, hist |-> <<>>]
NoImage == Picture(0, 0, 0)

Transformed(img, w, h, t) == [img EXCEPT !.w = w, !.h = h, !.hist = Append(@, t)]

\* image.crop((left, top, right, bottom))
Crop(img, box) == Transformed(img, box[3] - box[1], box[4] - box[2], Tr("crop", box))

\* a crop to the named ratio whatever the size of the image
apply_cropping_unguarded(img, crop_type) ==
    IF crop_type = "square"
    THEN Crop(img, <<(img.w - Min(img.w, img.h)) \div 2, (img.h - Min(img.w, img.h)) \div 2,
                     ((img.w - Min(img.w, img.h)) \div 2) + Min(img.w, img.h),
                     ((img.h - Min(img.w, img.h)) \div 2) + Min(img.w, img.h)>>)
    ELSE IF crop_type = "portrait"
    THEN Crop(img, <<(img.w - Trunc(img.h, 75, 100)) \div 2, 0,
                     ((img.w - Trunc(img.h, 75, 100)) \div 2) + Trunc(img.h, 75, 100),
                     img.h>>)
    ELSE IF crop_type = "landscape"
    THEN Crop(img, <<0, (img.h - ((img.w * 100) \div 133)) \div 2, img.w,
                     ((img.h - ((img.w * 100) \div 133)) \div 2)
                        + ((img.w * 100) \div 133)>>)
    ELSE img

apply_cropping(img, crop_type) ==
    LET width == img.w
        height == img.h
        size == Min(width, height)
        new_width == Trunc(height, 75, 100)
        new_height == (width * 100) \div 133
    IN  IF crop_type = "square"
        THEN Crop(img, <<(width - size) \div 2, (height - size) \div 2,
                         ((width - size) \div 2) + size, ((height - size) \div 2) + size>>)
        ELSE IF crop_type = "portrait" /\ new_width < width
        THEN Crop(img, <<(width - new_width) \div 2, 0,
                         ((width - new_width) \div 2) + new_width, height>>)
        ELSE IF crop_type = "landscape" /\ new_height < height
        THEN Crop(img, <<0, (height - new_height) \div 2, width,
                         ((height - new_height) \div 2) + new_height>>)
        ELSE img

\* centering, in tenths
centering_map(position) ==
    CASE position = "top" -> <<5, 1>>
      [] position = "bottom" -> <<5, 9>>
      [] position = "left" -> <<1, 5>>
      [] position = "right" -> <<9, 5>>
      [] OTHER -> <<5, 5>>

fit_with_position(img, target_size, position) ==
    Transformed(img, target_size[1], target_size[2],
                Tr("fit", target_size \o centering_map(position)))

FilterTypes == {"brightness", "contrast", "saturate", "blur", "sepia", "grayscale"}

apply_image_filter(img, filter_type, intensity) ==
    LET clamped == Max(0, Min(100, intensity)) IN
    IF filter_type \in {"brightness", "contrast", "saturate", "blur"}
    THEN Transformed(img, img.w, img.h, Tr(filter_type, <<clamped>>))
    ELSE IF filter_type \in {"sepia", "grayscale"}
    THEN Transformed(img, img.w, img.h, Tr(filter_type, <<>>))
    ELSE img

\* a brightness step that runs whatever the value
overall_brightness_always(img, overall_brightness) ==
    Transformed(img, img.w, img.h, Tr("overall_brightness", <<overall_brightness>>))

\* lines 520-524
overall_brightness_step(img, overall_brightness) ==
    IF overall_brightness # 100
    THEN Transformed(img, img.w, img.h, Tr("overall_brightness", <<overall_brightness>>))
    ELSE img

\* lines 501-504: the requested size, by default the size of the image given
target_size_of(base_image, edits) ==
    <<Get(Get(edits, "size", <<>>), "width", base_image.w),
      Get(Get(edits, "size", <<>>), "height", base_image.h)>>

\* lines 507-509
crop_step(img, crop_type) ==
    IF crop_type # "" /\ crop_type # "none" THEN apply_cropping(img, crop_type) ELSE img

\* lines 512-513
fit_step(img, base_image, edits) ==
    fit_with_position(img, target_size_of(base_image, edits),
                      Get(edits, "imagePosition", "center"))

\* lines 516-518
filter_step(img, edits) ==
    apply_image_filter(img, Get(edits, "imageFilter", "none"),
                       Get(edits, "filterIntensity", 50))

\* the image as it leaves the filter step: lines 500-518
filtered_image(base_image, edits) ==
    filter_step(fit_step(crop_step(base_image, Get(edits, "imageCrop", "none")),
                         base_image, edits),
                edits)

\* the transforms with the image resized before it is cropped
background_resize_first(base_image, edits) ==
    overall_brightness_step(
        filter_step(crop_step(fit_step(base_image, base_image, edits),
                              Get(edits, "imageCrop", "none")),
                    edits),
        Get(edits, "overallBrightness", 100))

\* the background handed to the two passes: lines 500-524
background(base_image, edits) ==
    overall_brightness_step(filtered_image(base_image, edits),
                            Get(edits, "overallBrightness", 100))

\* apply_edits up to the two passes: lines 500-527.  base_image is decoded.
apply_edits_prepare(base_image, edits) ==
    [image |-> background(base_image, edits), config |-> edits_to_config(edits)]

default_layout_cycle == <<"centered", "split", "left-aligned", "right-aligned">>

\* PamphletDesigner.__init__: the attributes of the instance
PamphletDesigner ==
    [font_candidates |-> FontKeys, default_layout_cycle |-> default_layout_cycle]

\* a choice that stays on the last layout once the cycle is used up
layout_choice_capped(regeneration_index) ==
    default_layout_cycle[Min(regeneration_index, Len(default_layout_cycle) - 1) + 1]

\* lines 463-465
layout_choice(regeneration_index) ==
    default_layout_cycle[(regeneration_index % Len(default_layout_cycle)) + 1]

CanvasWidth == 1200
CanvasHeight == 1600

\* create_pamphlet up to the two passes: lines 459-467.  image_data is decodable.
create_pamphlet_prepare(image_data, color_scheme, regeneration_index) ==
    [image |-> fit_with_position(image_data, <<CanvasWidth, CanvasHeight>>, "center"),
     config |-> build_design_config(color_scheme, layout_choice(regeneration_index))]

-----------------------------------------------------------------------------
(* The inputs the layout engine is run on *)

EmptyMap == [k \in {} |-> TRUE]

\* Bounds of the inputs
MaxFeatureCount == 5
MaxRegenerationIndex == 4
SmallWidth == 100
SmallHeight == 200

Headlines == {<<>>, <<" ">>, <<"H", "a">>}
Taglines == {<<>>, <<"a">>, <<"G", "o">>}
Descriptions == {<<>>, <<"H", "g">>, <<"H", "g", " ", "H", "g", " ", "H", "g">>}
CallsToAction == {<<>>, <<"g", "o">>}
CustomTexts == {<<>>, << <<>> >>, << <<"H", "g">>, <<>> >>}
FeatureLists == {<<>>, << <<"H", "g">> >>, [i \in 1..MaxFeatureCount |-> <<"H", "g">>]}

RemovalKeys == {"headline", "tagline", "description", "call_to_action", "custom"}
RemovalMaps ==
    {EmptyMap, [k \in RemovalKeys |-> TRUE], [k \in RemovalKeys |-> k = "description"]}
    \cup {[k \in {f} |-> TRUE] : f \in RemovalKeys \cup {"features"}}

TextContent(h, t, d, c, removals, custom, feats) ==
    [headline |-> h, tagline |-> t, description |-> d, call_to_action |-> c,
     removeLines |-> removals, customText |-> custom, features |-> feats]

\* every combination of the text fields
AllTexts ==
    {TextContent(h, t, d, c, r, cu, f) :
        h \in Headlines, t \in Taglines, d \in Descriptions, c \in CallsToAction,
        r \in RemovalMaps, cu \in CustomTexts, f \in FeatureLists}

FullText == TextContent(<<"H", "a">>, <<"G", "o">>,
                        <<"H", "g", " ", "H", "g", " ", "H", "g">>, <<"g", "o">>,
                        EmptyMap, << <<"H", "g">> >>,
                        [i \in 1..MaxFeatureCount |-> <<"H", "g">>])
PlainText == TextContent(<<"H", "a">>, <<"G", "o">>, <<"H", "g">>, <<"g", "o">>,
                         EmptyMap, <<>>, << <<"H", "g">> >>)
FewTexts == {FullText, PlainText, EmptyMap}

Layouts == {"centered", "split", "left-aligned", "right-aligned", "diagonal"}
Anchors == {"top", "middle", "bottom"}
ColorSchemes == {"modern", "elegant", "minimal", "neon"}

\* image bytes: decodable to a picture or not
Bytes(ok, pic) == [ok |-> ok, pic |-> pic]
Undecodable == Bytes(FALSE, NoImage)
SmallImage == Bytes(TRUE, Picture(1, SmallWidth, SmallHeight))
WideImage == Bytes(TRUE, Picture(2, CanvasHeight, CanvasWidth))

M1(k, v) == [x \in {k} |-> v]

\* edits maps: the layout options crossed with a few settings of the rest
EditExtras ==
    {EmptyMap,
     M1("size", [width |-> CanvasWidth, height |-> CanvasHeight]),
     M1("headlineFont", "Comic") @@ M1("bodySize", 20) @@ M1("textShadow", 40),
     M1("imageCrop", "square") @@ M1("imageFilter", "sepia")
        @@ M1("overallBrightness", 80) @@ M1("backgroundOpacity", 115)
        @@ M1("borderRadius", 0) @@ M1("shadowIntensity", 35)}
\* edits maps with numbers at and beyond the ends of their ranges
RangeEdits ==
    {M1("imageFilter", "blur") @@ M1("filterIntensity", 130) @@ M1("overallBrightness", 100),
     M1("imageFilter", "brightness") @@ M1("filterIntensity", -20),
     M1("imageCrop", "landscape") @@ M1("imageFilter", "mosaic"),
     M1("overallBrightness", 150),
     M1("headlineSize", -5),
     M1("borderRadius", -3) @@ M1("shadowIntensity", 180) @@ M1("textShadow", -10)}

LayoutEdits ==
    {M1("layout", l) @@ M1("textPlacement", a) @@ x :
        l \in Layouts, a \in Anchors, x \in EditExtras}

FontSets == {FontKeys, {}}

-----------------------------------------------------------------------------
(* The web application: the /generate handler of src/app.py around          *)
(* PamphletAgent.generate_pamphlet.  The development server runs every      *)
(* request on a thread of its own; the threads share the agent and the     *)
(* working directory.  A PNG is the sequence of its bytes, each tagged     *)
(* with the request it was composed for.                                   *)

Requests == {1, 2}

\* Bound on the length of a PNG, in bytes of the model
MaxPngLen == 2

ProductNames == {<<"M", "y", " ", "A", "d">>, <<"m", "y", "_", "a", "d">>, <<"T", "e", "a">>}

LowerChar(c) ==
    CASE c = "A" -> "a" [] c = "D" -> "d" [] c = "M" -> "m" [] c = "T" -> "t"
      [] OTHER -> c

\* f"pamphlet_{request.product_name.replace(' ', '_').lower()}.png"
filename_of(product_name) ==
    <<"p", "a", "m", "p", "h", "l", "e", "t", "_">>
    \o [i \in 1..Len(product_name) |->
          LowerChar(IF product_name[i] = " " THEN "_" ELSE product_name[i])]
    \o <<".", "p", "n", "g">>

FileNames == {filename_of(n) : n \in ProductNames}

\* what image acquisition gives: nothing, bytes no decoder accepts, or a picture
ImageOutcomes == {"none", "undecodable", "picture"}

\* the JSON bodies a client posts: one lacking a required field, or a full one
\* together with what the image source will answer and how long the PNG gets
Post(complete, n, im, k, i, source) ==
    [complete |-> complete, product_name |-> n, image |-> im, png_len |-> k,
     regeneration_index |-> i, image_source |-> source]

\* a first generation of every product; regenerations of one product; and a
\* request that uploads its own background
Posts ==
    {Post(FALSE, <<>>, "none", 1, 0, "ai_generated")}
    \cup {Post(TRUE, n, im, k, 0, "ai_generated") :
            n \in ProductNames, im \in ImageOutcomes, k \in 1..MaxPngLen}
    \cup {Post(TRUE, <<"T", "e", "a">>, "picture", 1, i, "ai_generated") :
            i \in 1..MaxRegenerationIndex}
    \cup {Post(TRUE, <<"T", "e", "a">>, im, 1, 0, "custom_upload") :
            im \in {"undecodable", "picture"}}

NoPost == Post(FALSE, <<>>, "none", 0, 0, "ai_generated")
NoResult == [success |-> FALSE, error |-> "", filename |-> <<>>]
NoLocals == [text_content |-> "unset", image_data |-> "unset", pamphlet_data |-> <<>>,
             layout_base |-> <<>>, result |-> NoResult,
             profile |-> "unset", is_variation |-> FALSE, text_by |-> "unset",
             layout_choice |-> "unset", layout_by |-> "unset",
             review_metadata |-> "unset", response_keys |-> {}, external |-> <<>>]

\* PamphletAgent.__init__: TRUE where the agent is constructed, FALSE where
\* the attribute is None
Agent(text, editing, layout, review) ==
    [text_agent |-> text, content_editing_agent |-> editing,
     layout_agent |-> layout, review_agent |-> review]
\* agent = PamphletAgent(STABILITY_API_KEY): every enable_* flag at its default
DefaultAgent == Agent(TRUE, TRUE, TRUE, TRUE)
Agents == {Agent(t, e, l, v) : t \in BOOLEAN, e \in BOOLEAN, l \in BOOLEAN, v \in BOOLEAN}

\* the names of VARIATION_PROFILES, in order
VARIATION_PROFILES == <<"vibrant_action", "premium_story", "data_focused", "lifestyle_mood">>

\* profile = VARIATION_PROFILES[request.regeneration_index % len(VARIATION_PROFILES)]
profile_of(regeneration_index) ==
    VARIATION_PROFILES[(regeneration_index % Len(VARIATION_PROFILES)) + 1]

\* The calls to external services a step makes, in order: four prompts go
\* to Ollama in generate_pamphlet_text; the background comes from Stability
\* AI unless the request carries an uploaded image.
external_of_reviewing(step, post) ==
    CASE step = "text" -> <<"ollama", "ollama", "ollama", "ollama">>
      [] step = "image" ->
            IF post.image_source = "custom_upload" THEN <<>> ELSE <<"stability">>
      [] step = "review" -> <<"ollama">>
      [] OTHER -> <<>>

external_of(step, post) ==
    CASE step = "text" -> <<"ollama", "ollama", "ollama", "ollama">>
      [] step = "image" ->
            IF post.image_source = "custom_upload" THEN <<>> ELSE <<"stability">>
      [] OTHER -> <<>>

\* a review agent that is always there
review_always(a) == "reviewed"

\* review_metadata: None unless the review agent reviewed
review_of(a) == IF a.review_agent THEN "reviewed" ELSE "None"

\* the keys of the response dict: lines 1286-1297
response_keys_of(review_metadata) ==
    {"success", "filename", "text_content", "layout_base_image", "message"}
    \cup (IF review_metadata # "None" THEN {"review"} ELSE {})
NoResponse == [status |-> 0, success |-> FALSE, image |-> <<>>, error |-> ""]
Absent == <<"absent">>

\* the composed image of request r, as PNG bytes
Png(r, len) == [i \in 1..len |-> r]

\* f.write(data) on a file opened for writing: the bytes go to offset 0
write_at_start(content, data) ==
    [i \in 1..Max(Len(content), Len(data)) |->
        IF i <= Len(data) THEN data[i] ELSE content[i]]

\* not image_data
no_image_never(image_data) == FALSE

no_image(image_data) == image_data = "none"

Step(r, name) == [steps EXCEPT ![r] = Append(@, name)]

\* the external calls made so far, and those of one more step, each with the
\* step that makes it
CalledBy(external, name, post) ==
    external
    \o [k \in 1..Len(external_of(name, post)) |->
          [service |-> external_of(name, post)[k], during |-> name]]

Called(r, name) == CalledBy(loc[r].external, name, req[r])

\* the handler up to the call of agent.generate_pamphlet: app.py 36-59
Receive(r) ==
    /\ pc[r] = "idle"
    /\ \E post \in Posts :
        /\ req' = [req EXCEPT ![r] = post]
        /\ IF ~post.complete
           THEN /\ resp' = [resp EXCEPT ![r] = [NoResponse EXCEPT !.status = 400,
                                                 !.error = "Missing required field"]]
                /\ pc' = [pc EXCEPT ![r] = "done"]
           ELSE /\ pc' = [pc EXCEPT ![r] = "text"]
                /\ UNCHANGED resp
    /\ UNCHANGED <<loc, steps, files, agent, layoutVars, colorVars, measureVars, textVars, repeatVars>>

\* Step 1: text_content = self.text_agent.generate(request), or
\* self.text_backend.generate_pamphlet_text(request) when the agent is None;
\* both run generate_pamphlet_text
GenerateText(r) ==
    /\ pc[r] = "text"
    /\ loc' = [loc EXCEPT ![r].text_content = "generated",
                          ![r].profile = profile_of(req[r].regeneration_index),
                          ![r].is_variation = req[r].regeneration_index > 0,
                          ![r].text_by = IF agent.text_agent THEN "TextGenerationAgent"
                                         ELSE "OllamaTextGenerator",
                          ![r].external = Called(r, "text")]
    /\ steps' = Step(r, "text")
    /\ pc' = [pc EXCEPT ![r] = "edit"]
    /\ UNCHANGED <<req, files, resp, agent, layoutVars, colorVars, measureVars, textVars, repeatVars>>

\* Step 2: if self.content_editing_agent is not None:
\*             text_content = self.content_editing_agent.edit(text_content, request)
EditContent(r) ==
    /\ pc[r] = "edit"
    /\ IF agent.content_editing_agent
       THEN /\ loc' = [loc EXCEPT ![r].text_content = "edited",
                                  ![r].external = Called(r, "edit")]
            /\ steps' = Step(r, "edit")
       ELSE UNCHANGED <<loc, steps>>
    /\ pc' = [pc EXCEPT ![r] = "image"]
    /\ UNCHANGED <<req, files, resp, agent, layoutVars, colorVars, measureVars, textVars, repeatVars>>

\* Step 3: image_data = self.image_generator.generate_pamphlet_image(...);
\* if not image_data: return {"error": "Failed to generate image"}
AcquireImage(r) ==
    /\ pc[r] = "image"
    /\ steps' = Step(r, "image")
    /\ IF no_image(req[r].image)
       THEN /\ loc' = [loc EXCEPT ![r].image_data = req[r].image,
                                  ![r].external = Called(r, "image"),
                                  ![r].result = [NoResult EXCEPT
                                                   !.error = "Failed to generate image"],
                                  ![r].response_keys = {"error"}]
            /\ pc' = [pc EXCEPT ![r] = "respond"]
       ELSE /\ loc' = [loc EXCEPT ![r].image_data = req[r].image,
                                  ![r].external = Called(r, "image")]
            /\ pc' = [pc EXCEPT ![r] = "layout"]
    /\ UNCHANGED <<req, files, resp, agent, layoutVars, colorVars, measureVars, textVars, repeatVars>>

\* Step 4: self.layout_agent.render(...), or self.designer.create_pamphlet(...)
\* when the agent is None; render delegates to create_pamphlet: both passes,
\* or the decoder's exception, which leaves generate_pamphlet and is caught
\* by the handler (app.py 83-84)
Layout(r) ==
    /\ pc[r] = "layout"
    /\ IF loc[r].image_data = "picture"
       THEN /\ loc' = [loc EXCEPT ![r].pamphlet_data = Png(r, req[r].png_len),
                                  ![r].layout_base = Png(r, req[r].png_len),
                                  ![r].layout_choice =
                                      create_pamphlet_prepare(
                                          SmallImage.pic, "modern",
                                          req[r].regeneration_index).config.layout,
                                  ![r].layout_by =
                                      IF agent.layout_agent THEN "LayoutFormattingAgent"
                                      ELSE "PamphletDesigner",
                                  ![r].external =
                                      CalledBy(Called(r, "pass1"), "pass2", req[r])]
            /\ steps' = [steps EXCEPT ![r] = @ \o <<"pass1", "pass2">>]
            /\ pc' = [pc EXCEPT ![r] = "review"]
            /\ UNCHANGED resp
       ELSE /\ resp' = [resp EXCEPT ![r] = [NoResponse EXCEPT !.status = 500,
                                             !.error = "cannot identify image file"]]
            /\ pc' = [pc EXCEPT ![r] = "done"]
            /\ UNCHANGED <<loc, steps>>
    /\ UNCHANGED <<req, files, agent, layoutVars, colorVars, measureVars, textVars, repeatVars>>

\* Step 5: review_metadata = None; if self.review_agent is not None:
\*             review_metadata = self.review_agent.review(...)
Review(r) ==
    /\ pc[r] = "review"
    /\ IF review_of(agent) # "None"
       THEN /\ loc' = [loc EXCEPT ![r].review_metadata = review_of(agent),
                                  ![r].external = Called(r, "review")]
            /\ steps' = Step(r, "review")
       ELSE /\ loc' = [loc EXCEPT ![r].review_metadata = review_of(agent)]
            /\ UNCHANGED steps
    /\ pc' = [pc EXCEPT ![r] = "open"]
    /\ UNCHANGED <<req, files, resp, agent, layoutVars, colorVars, measureVars, textVars, repeatVars>>

\* Step 6: open(filename, 'wb') creates the file or empties it
OpenFile(r) ==
    /\ pc[r] = "open"
    /\ files' = [files EXCEPT ![filename_of(req[r].product_name)] = <<>>]
    /\ loc' = [loc EXCEPT ![r].external = Called(r, "open")]
    /\ steps' = Step(r, "open")
    /\ pc' = [pc EXCEPT ![r] = "write"]
    /\ UNCHANGED <<req, resp, agent, layoutVars, colorVars, measureVars, textVars, repeatVars>>

\* f.write(pamphlet_data), the end of the with block, and the return of the
\* success result
WriteFile(r) ==
    /\ pc[r] = "write"
    /\ files' = [files EXCEPT ![filename_of(req[r].product_name)] =
                    write_at_start(@, loc[r].pamphlet_data)]
    /\ loc' = [loc EXCEPT ![r].result = [success |-> TRUE, error |-> "",
                                         filename |-> filename_of(req[r].product_name)],
                          ![r].response_keys = response_keys_of(loc[r].review_metadata),
                          ![r].external = Called(r, "write")]
    /\ steps' = Step(r, "write")
    /\ pc' = [pc EXCEPT ![r] = "respond"]
    /\ UNCHANGED <<req, resp, agent, layoutVars, colorVars, measureVars, textVars, repeatVars>>

\* the handler from the return of generate_pamphlet: app.py 64-81
Respond(r) ==
    /\ pc[r] = "respond"
    /\ resp' = [resp EXCEPT ![r] =
                  IF loc[r].result.success
                  THEN [status |-> 200, success |-> TRUE,
                        image |-> files[loc[r].result.filename], error |-> ""]
                  ELSE [NoResponse EXCEPT !.status = 500, !.error = loc[r].result.error]]
    /\ pc' = [pc EXCEPT ![r] = "done"]
    /\ UNCHANGED <<req, loc, steps, files, agent, layoutVars, colorVars, measureVars, textVars, repeatVars>>

Next ==
    \E r \in Requests :
        \/ Receive(r)
        \/ GenerateText(r)
        \/ EditContent(r)
        \/ AcquireImage(r)
        \/ Layout(r)
        \/ Review(r)
        \/ OpenFile(r)
        \/ WriteFile(r)
        \/ Respond(r)

\* A program that builds its PamphletAgent with enable_* flags of its own
\* choice, before any request is served
Construct ==
    /\ \A r \in Requests : pc[r] = "idle"
    /\ \E a \in Agents : agent' = a
    /\ UNCHANGED <<req, pc, loc, steps, files, resp, layoutVars, colorVars, measureVars, textVars, repeatVars>>

\* one generate_pamphlet run at a time, by an agent with any flags
AgentNext ==
    \/ Construct
    \/ Receive(1)
    \/ GenerateText(1)
    \/ EditContent(1)
    \/ AcquireImage(1)
    \/ Layout(1)
    \/ Review(1)
    \/ OpenFile(1)
    \/ WriteFile(1)
    \/ Respond(1)

-----------------------------------------------------------------------------
(* The layout engine as a state machine: one entry point runs at a time,   *)
(* from its call to its return.                                            *)

Pending == [kind |-> "pending", value |-> <<>>, exc |-> "none"]
\* an except clause that raises the exception again
Reraised(e) == [kind |-> "raise", value |-> <<>>, exc |-> e]

\* return None after the exception e was caught and printed
ReturnedNone(e) == [kind |-> "none", value |-> <<>>, exc |-> e]

Call(base_image, text, cfg, feats, render_text, inst) ==
    [base_image |-> base_image, text_content |-> text, config |-> cfg,
     features |-> feats, render_text |-> render_text,
     result |-> compose_layout(base_image, text, cfg, feats, render_text, inst)]

\* return final_output.getvalue(), base_output.getvalue()   (line 488, line 542)
return_pair(composed, textless_canvas) == Returned(<<composed, textless_canvas>>)

CreateInputs ==
    {[image_data |-> SmallImage, text |-> t, feats |-> Get(t, "features", <<>>),
      scheme |-> "modern", regen |-> 0, inst |-> FontKeys] : t \in AllTexts}
    \cup
    {[image_data |-> d, text |-> t, feats |-> f, scheme |-> sc, regen |-> i, inst |-> fs] :
        d \in {SmallImage, Undecodable}, t \in FewTexts,
        f \in {<<>>, << <<"H", "g">> >>}, sc \in ColorSchemes,
        i \in 0..MaxRegenerationIndex, fs \in FontSets}

EditInputs ==
    {[image_data |-> SmallImage, edits |-> EmptyMap, text |-> t, inst |-> FontKeys] :
        t \in AllTexts}
    \cup
    {[image_data |-> d, edits |-> e, text |-> t, inst |-> fs] :
        d \in {SmallImage, WideImage, Undecodable}, e \in LayoutEdits, t \in FewTexts,
        fs \in FontSets}
    \cup
    {[image_data |-> SmallImage, edits |-> e, text |-> PlainText, inst |-> fs] :
        e \in RangeEdits, fs \in FontSets}
    \cup
    {[image_data |-> SmallImage, edits |-> M1("bodyColor", PyList(<<PyElemNone, PyInt(0), PyInt(0)>>)),
      text |-> t, inst |-> FontKeys] : t \in FewTexts}

DirectInputs ==
    {[base_image |-> SmallImage.pic, text |-> t,
      config |-> [c EXCEPT !.show_panel = sp, !.panel_opacity = po],
      feats |-> Get(t, "features", <<>>), render_text |-> rt, inst |-> FontKeys] :
        t \in FewTexts,
        c \in {build_design_config("modern", "centered"), edits_to_config(EmptyMap).value},
        sp \in BOOLEAN, po \in {0, 35}, rt \in BOOLEAN}

\* The state after construction: no entry point running, no colour call
\* made, no request received, an empty working directory.
Init ==
    /\ lpc = "idle"
    /\ entry = "none"
    /\ image_bytes = Undecodable
    /\ cur_image = NoImage
    /\ cur_text = EmptyMap
    /\ cur_config = EmptyMap
    /\ cur_features = <<>>
    /\ cur_edits = EmptyMap
    /\ installed = {}
    /\ calls = <<>>
    /\ ret = Pending
    /\ saved = EmptyMap
    /\ render_args = EmptyMap
    /\ cpc = "idle"
    /\ cv_value = PyNone
    /\ cv_default = White
    /\ cv_result = Pending
    /\ edit_colors = EmptyMap
    /\ palette_out = Pending
    /\ req = [r \in Requests |-> NoPost]
    /\ pc = [r \in Requests |-> "idle"]
    /\ loc = [r \in Requests |-> NoLocals]
    /\ steps = [r \in Requests |-> <<>>]
    /\ files = [f \in FileNames |-> Absent]
    /\ resp = [r \in Requests |-> NoResponse]
    /\ agent = DefaultAgent
    /\ mpc = "idle"
    /\ m_in = EmptyMap
    /\ m_out = <<>>
    /\ tpc = "idle"
    /\ t_in = EmptyMap
    /\ t_out = EmptyMap
    /\ t_arg = EmptyMap
    /\ t_again = EmptyMap
    /\ rpc = "idle"
    /\ designer = PamphletDesigner
    /\ r_first = EmptyMap
    /\ r_second = EmptyMap

Spec == Init /\ [][Next]_vars

SpecAgent == Init /\ [][AgentNext]_vars

\* PamphletDesigner.create_pamphlet, from its call to the first pass
BeginCreate ==
    /\ lpc = "idle"
    /\ \E in \in CreateInputs :
        /\ entry' = "create_pamphlet"
        /\ image_bytes' = in.image_data
        /\ installed' = in.inst
        /\ cur_text' = in.text
        /\ cur_features' = in.feats
        /\ cur_edits' = EmptyMap
        /\ calls' = <<>>
        /\ IF ~in.image_data.ok
           THEN /\ lpc' = "done"
                /\ ret' = Raised("UnidentifiedImageError")
                /\ UNCHANGED <<cur_image, cur_config>>
           ELSE \E p \in {create_pamphlet_prepare(in.image_data.pic, in.scheme, in.regen)} :
                /\ lpc' = "pass1"
                /\ cur_image' = p.image
                /\ cur_config' = p.config
                /\ ret' = Pending
    /\ UNCHANGED <<saved, render_args, colorVars, appVars, measureVars, textVars, repeatVars>>

\* features = text_content.get("features") or [] when text_content is a non-empty dict
edit_features(text) == Get(text, "features", <<>>)

\* PamphletAgent.edit_pamphlet, from its call to the first pass of apply_edits;
\* any exception is caught, printed, and None is returned
BeginEdit ==
    /\ lpc = "idle"
    /\ \E in \in EditInputs :
        /\ entry' = "edit_pamphlet"
        /\ image_bytes' = in.image_data
        /\ installed' = in.inst
        /\ cur_text' = in.text
        /\ cur_features' = edit_features(in.text)
        /\ cur_edits' = in.edits
        /\ calls' = <<>>
        /\ IF ~in.image_data.ok
           THEN /\ lpc' = "done"
                /\ ret' = ReturnedNone("UnidentifiedImageError")
                /\ UNCHANGED <<cur_image, cur_config>>
           ELSE \E p \in {apply_edits_prepare(in.image_data.pic, in.edits)} :
                IF p.config.kind = "raise"
                THEN /\ lpc' = "done"
                     /\ ret' = ReturnedNone(p.config.exc)
                     /\ cur_image' = p.image
                     /\ UNCHANGED cur_config
                ELSE /\ lpc' = "pass1"
                     /\ cur_image' = p.image
                     /\ cur_config' = p.config.value
                     /\ ret' = Pending
    /\ UNCHANGED <<saved, render_args, colorVars, appVars, measureVars, textVars, repeatVars>>

\* textless_canvas = self._compose_layout(..., render_text=False), or the
\* ValueError of font loading, which edit_pamphlet catches
Pass1 ==
    /\ lpc = "pass1"
    /\ \/ /\ \E c \in {Call(cur_image, cur_text, cur_config, cur_features, FALSE,
                               installed)} :
                /\ calls' = Append(calls, c)
                /\ cur_image' = c.result.base_after
          /\ lpc' = "pass2"
          /\ UNCHANGED ret
       \/ /\ font_size_rejected(cur_config)
          /\ ret' = IF entry = "edit_pamphlet" THEN ReturnedNone("ValueError")
                    ELSE Raised("ValueError")
          /\ lpc' = "done"
          /\ UNCHANGED <<calls, cur_image>>
    /\ UNCHANGED <<entry, image_bytes, cur_text, cur_config, cur_features, cur_edits,
                   installed>>
    /\ UNCHANGED <<saved, render_args, colorVars, appVars, measureVars, textVars, repeatVars>>

\* composed = self._compose_layout(..., render_text=True)
Pass2 ==
    /\ lpc = "pass2"
    /\ \E c \in {Call(cur_image, cur_text, cur_config, cur_features, TRUE, installed)} :
        /\ calls' = Append(calls, c)
        /\ cur_image' = c.result.base_after
    /\ lpc' = "return"
    /\ UNCHANGED <<entry, image_bytes, cur_text, cur_config, cur_features, cur_edits,
                   installed, ret>>
    /\ UNCHANGED <<saved, render_args, colorVars, appVars, measureVars, textVars, repeatVars>>

\* the return of create_pamphlet, and of apply_edits through edit_pamphlet
ReturnPair ==
    /\ lpc = "return"
    /\ ret' = return_pair(calls[2].result.composed, calls[1].result.composed)
    /\ lpc' = "done"
    /\ UNCHANGED <<entry, image_bytes, cur_image, cur_text, cur_config, cur_features,
                   cur_edits, installed, calls>>
    /\ UNCHANGED <<saved, render_args, colorVars, appVars, measureVars, textVars, repeatVars>>

\* a call of _compose_layout by itself, with a configuration of the caller's
ComposeDirect ==
    /\ lpc = "idle"
    /\ \E in \in DirectInputs :
        /\ entry' = "compose_layout"
        /\ image_bytes' = Bytes(TRUE, in.base_image)
        /\ installed' = in.inst
        /\ cur_image' = in.base_image
        /\ cur_text' = in.text
        /\ cur_config' = in.config
        /\ cur_features' = in.feats
        /\ cur_edits' = EmptyMap
        /\ calls' = <<Call(in.base_image, in.text, in.config, in.feats, in.render_text, in.inst)>>
    /\ lpc' = "done"
    /\ ret' = Pending
    /\ UNCHANGED <<saved, render_args, colorVars, appVars, measureVars, textVars, repeatVars>>

\* a caller that takes the layout base for the pamphlet
unpack_pair_swapped(pair) == [file |-> pair[2], layout_base_image |-> pair[1]]

\* pamphlet_data, layout_base = ...create_pamphlet(...); f.write(pamphlet_data);
\* response["layout_base_image"] = base64 of layout_base
unpack_pair(pair) == [file |-> pair[1], layout_base_image |-> pair[2]]

\* PamphletAgent.generate_pamphlet from the return of create_pamphlet: the
\* output file and the response
SavePair ==
    /\ lpc = "done"
    /\ entry = "create_pamphlet"
    /\ ret.kind = "value"
    /\ saved = EmptyMap
    /\ saved' = unpack_pair(ret.value)
    /\ UNCHANGED <<lpc, entry, image_bytes, cur_image, cur_text, cur_config, cur_features,
                   cur_edits, installed, calls, ret, render_args>>
    /\ UNCHANGED <<colorVars, appVars, measureVars, textVars, repeatVars>>

RenderInputs ==
    {[image_data |-> SmallImage, text |-> t, feats |-> Get(t, "features", <<>>),
      scheme |-> sc, regen |-> 0, inst |-> FontKeys, enable_panel |-> e] :
        t \in {FullText, PlainText}, sc \in ColorSchemes, e \in BOOLEAN}

\* LayoutFormattingAgent.render(image_data, text_content, request, enable_panel):
\* return self.designer.create_pamphlet(image_data, text_content, request),
\* up to the first pass
BeginRender ==
    /\ lpc = "idle"
    /\ \E in \in RenderInputs :
       \E p \in {create_pamphlet_prepare(in.image_data.pic, in.scheme, in.regen)} :
        /\ render_args' = [enable_panel |-> in.enable_panel]
        /\ entry' = "create_pamphlet"
        /\ image_bytes' = in.image_data
        /\ installed' = in.inst
        /\ cur_text' = in.text
        /\ cur_features' = in.feats
        /\ cur_edits' = EmptyMap
        /\ calls' = <<>>
        /\ lpc' = "pass1"
        /\ cur_image' = p.image
        /\ cur_config' = p.config
        /\ ret' = Pending
    /\ UNCHANGED <<saved, colorVars, appVars, measureVars, textVars, repeatVars>>

LayoutNext ==
    \/ BeginCreate \/ BeginEdit \/ Pass1 \/ Pass2 \/ ReturnPair \/ ComposeDirect
    \/ SavePair \/ BeginRender

SpecLayout == Init /\ [][LayoutNext]_vars

-----------------------------------------------------------------------------
(* Colour resolution as a state machine: one call of _parse_color, or one   *)
(* palette built by either configuration builder.                          *)

Chars6(a, b, c, d, e, f) == <<a, b, c, d, e, f>>

ColorStrings ==
    {<<"#">> \o Chars6("f", "f", "6", "4", "3", "2"),
     Chars6("f", "f", "6", "4", "3", "2"),
     <<" ", "#">> \o Chars6("F", "F", "6", "4", "3", "2") \o <<" ">>,
     <<"#", "#">> \o Chars6("0", "0", "0", "0", "0", "0"),
     <<"#">> \o Chars6("+", "f", "-", "f", "+", "f"),
     <<"#">> \o Chars6("g", "g", "0", "0", "0", "0"),
     <<"#">> \o Chars6("f", " ", " ", "f", "0", "0"),
     <<"#", "f", "f", "f">>,
     <<"r", "e", "d">>,
     <<>>}

ColorElems ==
    {PyInt(255), PyInt(0), PyInt(300), PyInt(-5), PyFloat(255), PyFloat(-9),
     PyElemStr(<<"1", "0">>), PyElemStr(<<" ", "-", "7", " ">>), PyElemStr(<<"x">>),
     PyElemNone}

ColorLists ==
    {PyList(<<a, b, PyInt(0)>>) : a \in ColorElems, b \in ColorElems}
    \cup {PyList(<<PyInt(255), PyInt(100), PyInt(50)>>),
          PyList(<<PyInt(1), PyInt(2)>>),
          PyList(<<PyInt(1), PyInt(2), PyInt(3), PyElemNone>>),
          PyList(<<>>)}

ColorValues == {PyNone} \cup {PyStr(t) : t \in ColorStrings} \cup ColorLists

ColorDefaults == {White, <<255, 100, 100>>}

EditColorKeys == {"bodyColor", "headlineColor", "ctaBgColor", "ctaTextColor"}

EditColorValues ==
    {PyStr(<<"#">> \o Chars6("f", "f", "6", "4", "3", "2")),
     PyStr(<<"#">> \o Chars6("+", "f", "-", "f", "+", "f")),
     PyStr(<<"r", "e", "d">>),
     PyList(<<PyInt(300), PyInt(-5), PyInt(0)>>),
     PyList(<<PyElemStr(<<"x">>), PyInt(0), PyInt(0)>>)}

\* edits maps that set any of the four colour options
ColorEdits ==
    UNION {[ks -> EditColorValues] : ks \in SUBSET EditColorKeys}

\* self._parse_color(color_value, default)
ParseColor ==
    /\ cpc = "idle"
    /\ \E v \in ColorValues, d \in ColorDefaults :
        /\ cv_value' = v
        /\ cv_default' = d
        /\ cv_result' = parse_color(v, d)
    /\ cpc' = "parsed"
    /\ UNCHANGED <<edit_colors, palette_out, layoutVars, appVars, measureVars, textVars, repeatVars>>

\* config["colors"] of _build_design_config
SchemePalette ==
    /\ cpc = "idle"
    /\ \E sc \in ColorSchemes, l \in Layouts :
        palette_out' = Returned(build_design_config(sc, l).colors)
    /\ cpc' = "scheme"
    /\ UNCHANGED <<cv_value, cv_default, cv_result, edit_colors, layoutVars, appVars, measureVars, textVars, repeatVars>>

config_colors(r) == IF r.kind = "raise" THEN r ELSE Returned(r.value.colors)

\* config["colors"] of _edits_to_config
EditsPalette ==
    /\ cpc = "idle"
    /\ \E e \in ColorEdits :
        /\ edit_colors' = e
        /\ palette_out' = config_colors(edits_to_config(e))
    /\ cpc' = "edits"
    /\ UNCHANGED <<cv_value, cv_default, cv_result, layoutVars, appVars, measureVars, textVars, repeatVars>>

ColorNext == ParseColor \/ SchemePalette \/ EditsPalette

SpecColor == Init /\ [][ColorNext]_vars

-----------------------------------------------------------------------------
(* Text measurement and region geometry as a state machine: one call of     *)
(* _wrap_text, or the region arithmetic of one _compose_layout call         *)
(* (lines 626-651), on arguments of the caller's.                          *)

\* Bounds of the measurement inputs
MaxWords == 3
MaxWrapWidth == 45
MaxCanvasWidth == 120

WrapWords == {<<"a">>, <<"H", "g">>, <<"m", "m", "m", "m">>}
WordSeqs == UNION {[1..n -> WrapWords] : n \in 0..MaxWords}
\* the words joined by single spaces, and the same with more white space
WrapTexts ==
    {Join(ws) : ws \in WordSeqs}
    \cup {<<" ">> \o Join(ws) \o <<" ", " ">> : ws \in WordSeqs}
WrapFonts == {load_font("Arial", 20, FontKeys), load_font("Arial", 20, {})}

\* self._wrap_text(text, font, max_width)
WrapText ==
    /\ mpc = "idle"
    /\ \E t \in WrapTexts, f \in WrapFonts, w \in 0..MaxWrapWidth :
        /\ m_in' = [text |-> t, font |-> f, max_width |-> w]
        /\ m_out' = wrap_text(t, f, w)
    /\ mpc' = "wrapped"
    /\ UNCHANGED <<layoutVars, colorVars, appVars, textVars, repeatVars>>

CanvasWidths == 0..MaxCanvasWidth \cup {CanvasWidth}
CanvasHeights == {SmallHeight, CanvasHeight}

\* width, height = image.size ... panel_rect = (...)
TextRegion ==
    /\ mpc = "idle"
    /\ \E w \in CanvasWidths, h \in CanvasHeights, l \in Layouts :
        /\ m_in' = [width |-> w, height |-> h, layout |-> l]
        /\ m_out' = Geometry(w, h, l)
    /\ mpc' = "region"
    /\ UNCHANGED <<layoutVars, colorVars, appVars, textVars, repeatVars>>

MaxCropSide == 16
CropTypes == {"square", "portrait", "landscape", "none", "circle"}

\* self._apply_cropping(image, crop_type)
Cropping ==
    /\ mpc = "idle"
    /\ \E w \in 1..MaxCropSide, h \in 1..MaxCropSide, ct \in CropTypes :
        /\ m_in' = [width |-> w, height |-> h, crop_type |-> ct]
        /\ m_out' = apply_cropping(Picture(1, w, h), ct)
    /\ mpc' = "cropped"
    /\ UNCHANGED <<layoutVars, colorVars, appVars, textVars, repeatVars>>

MeasureNext == WrapText \/ TextRegion \/ Cropping

SpecMeasure == Init /\ [][MeasureNext]_vars

-----------------------------------------------------------------------------
(* The text stage as a state machine: one call of                           *)
(* OllamaTextGenerator.generate_pamphlet_text with the answers Ollama gives *)
(* to its four prompts, or one call of ContentEditingAgent.edit followed by *)
(* a second call on its result.                                             *)

\* What a POST to Ollama's /api/generate comes to: an exception (connection
\* error, timeout, HTTP error status, malformed body) or the "response"
\* string of the answer.
OllamaResponses ==
    {<<>>, <<" ">>, <<"\"", "'">>, <<"H", "i">>, <<" ", "\"", "H", "i", "\"", " ">>}
OllamaOutcomes ==
    {[ok |-> FALSE, response |-> <<>>]}
    \cup {[ok |-> TRUE, response |-> s] : s \in OllamaResponses}

\* _call_ollama: the response, or "" from the except branch
call_ollama(outcome) == IF outcome.ok THEN outcome.response ELSE <<>>

\* Python's `a or b` on strings
Or(a, b) == IF a = <<>> THEN b ELSE a

\* .replace('"', '').replace("'", "")
RemoveQuotes(s) == SelectSeq(s, LAMBDA c : c \notin {"\"", "'"})

\* ', '.join(items)
RECURSIVE CommaJoin(_)
CommaJoin(items) ==
    IF items = <<>> THEN <<>>
    ELSE IF Len(items) = 1 THEN items[1]
    ELSE items[1] \o <<",", " ">> \o CommaJoin(Tail(items))

\* f"Discover {product_name}: {', '.join(key_features[:3])}. {call_to_action}"
description_fallback(request) ==
    <<"D", "i", "s", "c", "o", "v", "e", "r", " ">> \o request.product_name
    \o <<":", " ">>
    \o CommaJoin(SubSeq(request.key_features, 1, Min(3, Len(request.key_features))))
    \o <<".", " ">> \o request.call_to_action

\* "Learn more today"
LearnMoreToday ==
    <<"L", "e", "a", "r", "n", " ", "m", "o", "r", "e", " ", "t", "o", "d", "a", "y">>

\* generate_pamphlet_text, lines 110-186; answers holds the outcome of the
\* headline, description, call-to-action and tagline prompt
generate_pamphlet_text(request, answers) ==
    [headline |->
        RemoveQuotes(Strip(Or(call_ollama(answers.headline), request.product_name))),
     description |->
        Strip(Or(call_ollama(answers.description), description_fallback(request))),
     call_to_action |->
        Strip(Or(call_ollama(answers.call_to_action),
                 Or(request.call_to_action, LearnMoreToday))),
     tagline |->
        RemoveQuotes(Strip(Or(call_ollama(answers.tagline), request.product_name)))]

TextRequests ==
    {[product_name |-> n, call_to_action |-> c, key_features |-> f] :
        n \in {<<"T", "e", "a">>, <<"'", "X", "'">>},
        c \in {<<>>, <<" ">>, <<"G", "o">>},
        f \in {<<>>, <<<<"h", "o", "t">>, <<"f", "a", "s", "t">>>>}}

GenerateTextCall ==
    /\ tpc = "idle"
    /\ \E request \in TextRequests :
       \E h \in OllamaOutcomes, d \in OllamaOutcomes,
          c \in OllamaOutcomes, g \in OllamaOutcomes :
        /\ t_in' = [request |-> request,
                    answers |-> [headline |-> h, description |-> d,
                                 call_to_action |-> c, tagline |-> g]]
        /\ t_out' = generate_pamphlet_text(
                        request, [headline |-> h, description |-> d,
                                  call_to_action |-> c, tagline |-> g])
    /\ tpc' = "generated"
    /\ UNCHANGED <<t_arg, t_again, layoutVars, colorVars, appVars, measureVars, repeatVars>>

MaxTextLen == 6
MaxDescriptionChars == 4
MaxHeadlineWords == 2

\* the character U+2026, one character of a string
Ellipsis == "..."

\* " ".join(value.split())
normalize(value) == Join(Split(value))

\* an edit that never shortens the headline
edit_headline_uncut(headline, max_headline_words) == normalize(headline)

\* lines 258-260, on the raw value
edit_headline(headline, max_headline_words) ==
    IF Len(Split(normalize(headline))) > max_headline_words
    THEN Join(SubSeq(Split(normalize(headline)), 1, max_headline_words))
    ELSE normalize(headline)

\* s.rsplit(" ", 1)[0]: what precedes the last space, or all of s
RECURSIVE rsplit_first(_)
rsplit_first(s) ==
    IF \A i \in 1..Len(s) : s[i] # " " THEN s
    ELSE IF s[Len(s)] = " " THEN SubSeq(s, 1, Len(s) - 1)
    ELSE rsplit_first(SubSeq(s, 1, Len(s) - 1))

\* lines 263-266, on the raw value
edit_description(description, max_description_chars) ==
    IF Len(normalize(description)) > max_description_chars
    THEN rsplit_first(SubSeq(normalize(description), 1, max_description_chars))
         \o <<Ellipsis>>
    ELSE normalize(description)

\* ContentEditingAgent.edit: the mapping it returns
edit(text_content, max_description_chars, max_headline_words) ==
    [headline |-> edit_headline(text_content.headline, max_headline_words),
     description |-> edit_description(text_content.description, max_description_chars),
     call_to_action |-> normalize(text_content.call_to_action),
     tagline |-> normalize(text_content.tagline)]

\* an edit that writes into the mapping it was given
passed_mapping_aliased(text_content, returned) == returned

\* refined = dict(text_content): every assignment goes to the copy, so the
\* mapping that was passed keeps its values
passed_mapping(text_content, returned) == text_content

RECURSIVE Strings(_, _)
Strings(alphabet, n) ==
    IF n = 0 THEN {<<>>}
    ELSE Strings(alphabet, n - 1)
         \cup {Append(x, c) : x \in {y \in Strings(alphabet, n - 1) : Len(y) = n - 1},
                               c \in alphabet}

EditStrings == Strings({"a", " ", Ellipsis}, MaxTextLen)

TextContents ==
    {[headline |-> <<"a", " ", " ", "a", " ", "a", " ">>, description |-> d,
      call_to_action |-> <<" ", "a", " ", " ", "a">>, tagline |-> <<"a">>] :
        d \in EditStrings}
    \cup {[headline |-> h, description |-> <<"a", "a", " ", "a", "a", "a">>,
           call_to_action |-> h, tagline |-> h] : h \in EditStrings}

\* ContentEditingAgent(max_description_chars, max_headline_words).edit(text_content, request)
EditCall ==
    /\ tpc = "idle"
    /\ \E t \in TextContents, c \in 0..MaxDescriptionChars, w \in 1..MaxHeadlineWords :
        /\ t_in' = [text_content |-> t, max_description_chars |-> c,
                    max_headline_words |-> w]
        /\ t_out' = edit(t, c, w)
        /\ t_arg' = passed_mapping(t, edit(t, c, w))
    /\ tpc' = "edited"
    /\ UNCHANGED <<t_again, layoutVars, colorVars, appVars, measureVars, repeatVars>>

\* the same agent's edit, on the mapping it returned
EditAgain ==
    /\ tpc = "edited"
    /\ t_again' = edit(t_out, t_in.max_description_chars, t_in.max_headline_words)
    /\ tpc' = "edited twice"
    /\ UNCHANGED <<t_in, t_out, t_arg, layoutVars, colorVars, appVars, measureVars, repeatVars>>

TextNext == GenerateTextCall \/ EditCall \/ EditAgain

SpecText == Init /\ [][TextNext]_vars

-----------------------------------------------------------------------------
(* One PamphletDesigner instance asked to compose twice: the instance's     *)
(* attributes, and the two calls with their arguments, the fonts the        *)
(* machine could load, and their results.                                   *)

RepeatInputs ==
    {[base_image |-> b, text |-> t, config |-> c, feats |-> Get(t, "features", <<>>),
      render_text |-> rt, inst |-> fs] :
        b \in {SmallImage.pic, WideImage.pic}, t \in {FullText, PlainText},
        c \in {build_design_config("modern", "centered"),
               build_design_config("modern", "split")},
        rt \in BOOLEAN, fs \in FontSets}

\* a designer that notes on itself that it has composed, and leaves the text
\* out from then on
designer_call_remembering(self, in) ==
    [call |-> Call(in.base_image, in.text, in.config, in.feats,
                   in.render_text /\ self.default_layout_cycle # <<>>, in.inst),
     inst |-> in.inst,
     self |-> [self EXCEPT !.default_layout_cycle = <<>>]]

\* self._compose_layout(...): _compose_layout and the methods it calls read
\* self.font_candidates and assign no attribute of self
designer_call(self, in) ==
    [call |-> Call(in.base_image, in.text, in.config, in.feats, in.render_text, in.inst),
     inst |-> in.inst,
     self |-> self]

ComposeFirst ==
    /\ rpc = "idle"
    /\ \E in \in RepeatInputs : \E c \in {designer_call(designer, in)} :
        /\ r_first' = [call |-> [c.call EXCEPT !.render_text = in.render_text],
                       inst |-> c.inst]
        /\ designer' = c.self
    /\ rpc' = "first"
    /\ UNCHANGED <<r_second, layoutVars, colorVars, appVars, measureVars, textVars>>

ComposeSecond ==
    /\ rpc = "first"
    /\ \E in \in RepeatInputs : \E c \in {designer_call(designer, in)} :
        /\ r_second' = [call |-> [c.call EXCEPT !.render_text = in.render_text],
                        inst |-> c.inst]
        /\ designer' = c.self
    /\ rpc' = "second"
    /\ UNCHANGED <<r_first, layoutVars, colorVars, appVars, measureVars, textVars>>

RepeatNext == ComposeFirst \/ ComposeSecond

SpecRepeat == Init /\ [][RepeatNext]_vars

-----------------------------------------------------------------------------
(* Properties of the layout engine, stated of SpecLayout *)

Abs(x) == IF x < 0 THEN -x ELSE x

Removals(c) == Get(c.text_content, "removeLines", <<>>)
CustomLines(c) == Get(c.text_content, "customText", <<>>)
TextOf(c, name) == Strip(Get(c.text_content, name, <<>>))
NoRemovals(c) == \A k \in DOMAIN Removals(c) : ~Removals(c)[k]

BlockIndex(b) == CHOOSE i \in 1..Len(Blocks) : Blocks[i] = b
EnteredNames(r) == {r.blocks[j].name : j \in 1..Len(r.blocks)}
\* the blocks that left a draw operation on the overlay
DrawnNames(r) == {r.composed.ops[k].block : k \in 1..Len(r.composed.ops)} \ {"panel"}
\* how far the renderer moved the cursor inside its j-th block
BlockAdvance(r, j) ==
    (IF j < Len(r.blocks) THEN r.blocks[j + 1].y ELSE r.y_cursor) - r.blocks[j].y

\* Every text the renderer measures is as tall as the text the estimator
\* measures in its place.
EqualGlyphHeights(c) ==
    /\ TextHeight(c.result.fonts.headline, Upper(TextOf(c, "headline")))
         = TextHeight(c.result.fonts.headline, TextOf(c, "headline"))
    /\ TextHeight(c.result.fonts.tagline, Upper(TextOf(c, "tagline")))
         = TextHeight(c.result.fonts.tagline, TextOf(c, "tagline"))
    /\ \A k \in 1..Len(c.result.composed.ops) :
          c.result.composed.ops[k].block = "description"
          => c.result.composed.ops[k].h = TextHeight(c.result.fonts.body, Hg)
    /\ \A k \in 1..Len(FirstN(c.features, 4)) :
          TextHeight(c.result.fonts.feature, BulletText(c.features[k]))
          = TextHeight(c.result.fonts.feature, SampleFeature)

\* Every font was loaded from a file, at the size the configuration asks for.
FontsLoaded(c) ==
    \A k \in DOMAIN c.result.fonts : c.result.fonts[k].key # "default"

LockStepCase(c) ==
    /\ c.render_text
    /\ c.result.blocks # <<>>
    /\ FontsLoaded(c)
    /\ Get(c.config, "text_anchor", "top") = "top"
    /\ NoRemovals(c)
    /\ CustomLines(c) = <<>>
    /\ EqualGlyphHeights(c)

LockStep(r) ==
    /\ Abs(r.y_cursor - (r.geometry.panel_rect[2] + r.estimated_height))
         <= 2 * Len(r.blocks)
    /\ \A j \in 1..Len(r.blocks) :
          Abs(r.amount[r.blocks[j].name] - BlockAdvance(r, j)) <= 2

\* C1: with no removals, no custom lines, render_text=true and the top
\* anchor, the final cursor is the region top plus the estimated height
\* within 2 px per drawn block, and for every block the estimator's
\* increment is the renderer's advance (within 2 px), glyph heights being equal.
C1_EstimatorLockStep ==
    \A i \in 1..Len(calls) : LockStepCase(calls[i]) => LockStep(calls[i].result)

\* the field f of a text content, emptied
Blanked(text, f) ==
    IF f = "custom" THEN [text EXCEPT !["customText"] = <<>>]
    ELSE [text EXCEPT ![f] = <<>>]

\* The call came out as it would have with the suppressed field empty.
AsIfAbsent(c, f) ==
    \E r \in {compose_layout(c.base_image, Blanked(c.text_content, f), c.config,
                              c.features, c.render_text, installed)} :
        /\ r.composed = c.result.composed
        /\ r.y_cursor = c.result.y_cursor
        /\ r.estimated_height = c.result.estimated_height

SuppressedSkipped(c) ==
    \A f \in RemovalKeys :
        Removed(Removals(c), f) =>
            /\ c.result.amount[f] = 0
            /\ f \notin c.result.counted
            /\ f \notin EnteredNames(c.result)
            /\ f \notin DrawnNames(c.result)
            /\ AsIfAbsent(c, f)

Present(c, b) ==
    CASE b = "features" -> c.features # <<>>
      [] b = "custom" -> CustomLines(c) # <<>>
      [] OTHER -> TextOf(c, b) # <<>>

\* a block has something to put on the canvas
HasInk(c, b) ==
    IF b = "custom" THEN \E k \in 1..Len(CustomLines(c)) : CustomLines(c)[k] # <<>>
    ELSE TRUE

OpIndex(o) == IF o.block = "panel" THEN 0 ELSE BlockIndex(o.block)

InSourceOrder(r) ==
    /\ \A j \in 1..Len(r.blocks) : \A k \in 1..Len(r.blocks) :
          j < k => BlockIndex(r.blocks[j].name) < BlockIndex(r.blocks[k].name)
    /\ \A j \in 1..Len(r.composed.ops) : \A k \in 1..Len(r.composed.ops) :
          j < k => OpIndex(r.composed.ops[j]) <= OpIndex(r.composed.ops[k])

\* C4 as stated: the blocks are drawn in the fixed order, a block is drawn
\* if and only if render_text is true and its field is non-empty and not
\* suppressed in removeLines, and nothing is drawn with render_text=false.
C4_DrawnIffNotSuppressed ==
    \A i \in 1..Len(calls) :
        /\ InSourceOrder(calls[i].result)
        /\ \A b \in BlockSet :
              b \in DrawnNames(calls[i].result)
              <=> /\ calls[i].render_text
                  /\ Present(calls[i], b)
                  /\ ~Removed(Removals(calls[i]), b)
        /\ ~calls[i].render_text => DrawnNames(calls[i].result) = {}

\* C4 amended: the blocks run in the fixed order; the headline, tagline,
\* description, CTA and custom blocks run if and only if render_text is
\* true and the field is non-empty and not suppressed; the feature block
\* runs if and only if render_text is true and the feature list is
\* non-empty, whatever removeLines holds; a block that runs draws, unless
\* it is a custom block of empty lines; nothing is drawn with
\* render_text=false.
C4_RenderOrder ==
    \A i \in 1..Len(calls) :
        /\ InSourceOrder(calls[i].result)
        /\ \A b \in BlockSet :
              b \in EnteredNames(calls[i].result)
              <=> /\ calls[i].render_text
                  /\ Present(calls[i], b)
                  /\ b = "features" \/ ~Removed(Removals(calls[i]), b)
        /\ \A b \in BlockSet :
              b \in DrawnNames(calls[i].result)
              <=> b \in EnteredNames(calls[i].result) /\ HasInk(calls[i], b)
        /\ ~calls[i].render_text => DrawnNames(calls[i].result) = {}

C4_Witness ==
    \E i \in 1..Len(calls) :
        /\ Len(calls[i].result.blocks) = Len(Blocks)
        /\ DrawnNames(calls[i].result) = BlockSet

PanelOps(r) == {k \in 1..Len(r.composed.ops) : r.composed.ops[k].block = "panel"}

\* C5: a panel is drawn only when show_panel is true and panel_opacity is
\* positive, and then before any text; the two builders give
\* show_panel=false, so create_pamphlet and apply_edits draw no panel.
C5_PanelOnlyWhenEnabled ==
    \A i \in 1..Len(calls) :
        /\ PanelOps(calls[i].result) # {}
            <=> /\ Get(calls[i].config, "show_panel", FALSE)
                /\ Get(calls[i].config, "panel_opacity", 0) > 0
        /\ \A j \in PanelOps(calls[i].result) :
              \A k \in 1..Len(calls[i].result.composed.ops) :
                  k < j => k \in PanelOps(calls[i].result)
        /\ entry \in {"create_pamphlet", "edit_pamphlet"}
            => /\ ~calls[i].config.show_panel
               /\ PanelOps(calls[i].result) = {}

C5_Witness ==
    \E i \in 1..Len(calls) :
        /\ PanelOps(calls[i].result) # {}
        /\ DrawnNames(calls[i].result) # {}

IsPrefix(a, b) == Len(a) <= Len(b) /\ SubSeq(b, 1, Len(a)) = a

\* C6: create_pamphlet and apply_edits run _compose_layout exactly twice,
\* render_text=false and then render_text=true, on the same image, text
\* content and configuration; the first pass leaves the image unchanged,
\* both passes compute the same geometry, and the textless pass holds no
\* text draw.
C6_TwoPasses ==
    entry \in {"create_pamphlet", "edit_pamphlet"} =>
        /\ Len(calls) = (CASE lpc = "pass2" -> 1
                           [] lpc = "return" -> 2
                           [] lpc = "done" /\ ret.kind = "value" -> 2
                           [] OTHER -> 0)
        /\ Len(calls) >= 1 =>
              /\ ~calls[1].render_text
              /\ calls[1].result.base_after = calls[1].base_image
              /\ cur_image = calls[1].base_image
              /\ DrawnNames(calls[1].result) = {}
        /\ Len(calls) = 2 =>
              /\ calls[2].render_text
              /\ calls[2].base_image = calls[1].base_image
              /\ calls[2].text_content = calls[1].text_content
              /\ calls[2].config = calls[1].config
              /\ calls[2].features = calls[1].features
              /\ calls[2].result.geometry = calls[1].result.geometry
              /\ calls[2].result.y_start = calls[1].result.y_start
              /\ IsPrefix(calls[1].result.composed.ops, calls[2].result.composed.ops)

C6_Witness ==
    /\ entry = "edit_pamphlet"
    /\ lpc = "done"
    /\ ret.kind = "value"
    /\ DrawnNames(calls[2].result) # {}
    /\ ret.value = <<calls[2].result.composed, calls[1].result.composed>>

\* C7 as stated: undecodable image bytes are raised to the caller as a
\* decoding error by create_pamphlet and by edit_pamphlet alike.
C7_DecodeErrorRaised ==
    (lpc = "done" /\ entry \in {"create_pamphlet", "edit_pamphlet"} /\ ~image_bytes.ok)
        => ret = Raised("UnidentifiedImageError")

\* C7 amended: undecodable bytes make create_pamphlet raise the decoding
\* error; edit_pamphlet catches it and returns None; neither runs a
\* composition pass nor returns images.
C7_DecodeErrorReported ==
    (entry \in {"create_pamphlet", "edit_pamphlet"} /\ ~image_bytes.ok)
        => /\ lpc = "done"
           /\ calls = <<>>
           /\ entry = "create_pamphlet" => ret = Raised("UnidentifiedImageError")
           /\ entry = "edit_pamphlet"
               => ret = [kind |-> "none", value |-> <<>>, exc |-> "UnidentifiedImageError"]

C7_Witness ==
    /\ entry = "edit_pamphlet"
    /\ ~image_bytes.ok
    /\ lpc = "done"
    /\ ret.kind = "none"

\* the result of the pass that ran with the given render_text flag
PassWith(flag) ==
    {calls[i].result.composed : i \in {j \in 1..Len(calls) : calls[j].render_text = flag}}

\* C23: every successful call of create_pamphlet, apply_edits and
\* edit_pamphlet returns exactly two outputs in the order (composed
\* pamphlet from the render_text=true pass, layout base from the
\* render_text=false pass); generate_pamphlet writes the first to the
\* output file and returns the second as layout_base_image, never the
\* other way round.
C23_PairOrder ==
    /\ (entry \in {"create_pamphlet", "edit_pamphlet"} /\ ret.kind = "value")
        => /\ Len(ret.value) = 2
           /\ PassWith(TRUE) = {ret.value[1]}
           /\ PassWith(FALSE) = {ret.value[2]}
    /\ saved # EmptyMap
        => /\ entry = "create_pamphlet"
           /\ PassWith(TRUE) = {saved.file}
           /\ PassWith(FALSE) = {saved.layout_base_image}

\* a pamphlet with text was saved, and its textless base returned
C23_Witness ==
    /\ saved # EmptyMap
    /\ saved.file # saved.layout_base_image
    /\ saved.file.ops # <<>>
    /\ DrawnNames(calls[2].result) # {}

OpsOf(r, block, kinds) ==
    {k \in 1..Len(r.composed.ops) :
        r.composed.ops[k].block = block /\ r.composed.ops[k].op \in kinds}

\* C25: after the CTA pill is drawn, the vertical cursor of _compose_layout
\* has advanced past the pill, so that when both a CTA and custom lines are
\* rendered, the first custom line starts at or below the bottom edge of
\* the CTA pill and never overlaps it vertically.
C25_CustomBelowCta ==
    \A i \in 1..Len(calls) :
        \A b \in OpsOf(calls[i].result, "call_to_action", {"cta_box"}) :
            /\ calls[i].result.y_cursor
                 >= calls[i].result.composed.ops[b].y + calls[i].result.composed.ops[b].h
            /\ \A c \in OpsOf(calls[i].result, "custom", {"text"}) :
                 calls[i].result.composed.ops[c].y
                    >= calls[i].result.composed.ops[b].y
                       + calls[i].result.composed.ops[b].h

\* the op lies inside the text region of the call's geometry
InsideRegion(r, op) ==
    /\ r.geometry.x_start <= op.x
    /\ op.x + op.w <= r.geometry.x_start + r.geometry.text_area_width

IsBullet(op) == op.block = "features" /\ op.text # <<>> /\ Head(op.text) = Bullet

\* C27: for every layout variant and every drawn line whose measured width
\* is at most the region width (headline, tagline, description line,
\* feature title, feature bullet, CTA box, custom line), the horizontal
\* extent [x, x + width] at which it is drawn lies inside the text region
\* [x_start, x_start + region width]; for layout right-aligned the right
\* edge of each feature bullet is at the region's right edge.
C27_LinesInsideRegion ==
    \A i \in 1..Len(calls) :
        \A k \in 1..Len(calls[i].result.composed.ops) :
            (/\ calls[i].result.composed.ops[k].op \in {"text", "cta_box"}
             /\ calls[i].result.composed.ops[k].w <= calls[i].result.geometry.text_area_width)
            => /\ InsideRegion(calls[i].result, calls[i].result.composed.ops[k])
               /\ (calls[i].config.layout = "right-aligned"
                    /\ IsBullet(calls[i].result.composed.ops[k]))
                   => calls[i].result.composed.ops[k].x + calls[i].result.composed.ops[k].w
                        = calls[i].result.geometry.x_start
                          + calls[i].result.geometry.text_area_width

\* C28: LayoutFormattingAgent.render respects its panel visibility flag:
\* the composition it triggers runs with show_panel equal to the
\* enable_panel argument, so with the default enable_panel=False no panel
\* is drawn and with enable_panel=True the panel is enabled in the
\* configuration used for both passes.
C28_RenderPanelFlag ==
    render_args # EmptyMap =>
        /\ lpc # "idle" => cur_config.show_panel = render_args.enable_panel
        /\ \A i \in 1..Len(calls) :
            /\ calls[i].config.show_panel = render_args.enable_panel
            /\ ~render_args.enable_panel => PanelOps(calls[i].result) = {}

-----------------------------------------------------------------------------
(* The initial cursor, stated of SpecLayout *)

RegionHeight(r) == r.geometry.panel_rect[4] - r.geometry.panel_rect[2]
Anchor(c) == Get(c.config, "text_anchor", "top")

\* C12 as stated: the initial cursor is the top margin for anchor top, the
\* top margin plus half the difference of region height and estimated
\* height for middle, and the top margin plus that difference for bottom,
\* for every estimated height, also one larger than the region height.
C12_CursorUnclamped ==
    \A i \in 1..Len(calls) :
        /\ Anchor(calls[i]) = "top"
            => calls[i].result.y_start = calls[i].result.geometry.top_margin
        /\ Anchor(calls[i]) = "middle"
            => calls[i].result.y_start
                 = calls[i].result.geometry.top_margin
                   + ((RegionHeight(calls[i].result)
                       - calls[i].result.estimated_height) \div 2)
        /\ Anchor(calls[i]) = "bottom"
            => calls[i].result.y_start
                 = calls[i].result.geometry.top_margin
                   + (RegionHeight(calls[i].result) - calls[i].result.estimated_height)

\* C12 amended: the offsets of middle and bottom are floored at zero, so
\* with an estimate larger than the region height the cursor starts at the
\* top margin for every anchor, and never above it.
C12_CursorClamped ==
    \A i \in 1..Len(calls) :
        /\ Anchor(calls[i]) = "top"
            => calls[i].result.y_start = calls[i].result.geometry.top_margin
        /\ Anchor(calls[i]) = "middle"
            => calls[i].result.y_start
                 = calls[i].result.geometry.top_margin
                   + Max(0, (RegionHeight(calls[i].result)
                             - calls[i].result.estimated_height) \div 2)
        /\ Anchor(calls[i]) = "bottom"
            => calls[i].result.y_start
                 = calls[i].result.geometry.top_margin
                   + Max(0, RegionHeight(calls[i].result)
                            - calls[i].result.estimated_height)
        /\ calls[i].result.estimated_height > RegionHeight(calls[i].result)
            => calls[i].result.y_start = calls[i].result.geometry.top_margin
        /\ calls[i].result.y_start >= calls[i].result.geometry.top_margin

C12_Witness ==
    \E i \in 1..Len(calls) :
        /\ Anchor(calls[i]) = "bottom"
        /\ calls[i].render_text
        /\ calls[i].result.estimated_height > RegionHeight(calls[i].result)
        /\ calls[i].result.y_start = calls[i].result.geometry.top_margin

-----------------------------------------------------------------------------
(* apply_edits, stated of SpecLayout *)

\* an edit run whose image was decoded
Editing == entry = "edit_pamphlet" /\ image_bytes.ok /\ lpc # "idle"

\* the step of apply_edits a recorded transform belongs to
StepOf(t) ==
    CASE t = "crop" -> 1
      [] t = "fit" -> 2
      [] t = "overall_brightness" -> 4
      [] OTHER -> 3

StepsOf(img) == [k \in 1..Len(img.hist) |-> StepOf(img.hist[k].t)]

\* C14: in every run of apply_edits the background is cropped, then fitted
\* to the target size, then filtered, then brightened, each at most once
\* and the fit always; only after all of them the configuration is derived
\* and the two passes run, on that background and that configuration.
C14_TransformOrder ==
    Editing =>
        /\ \A j \in 1..Len(cur_image.hist) : \A k \in 1..Len(cur_image.hist) :
              j < k => StepsOf(cur_image)[j] < StepsOf(cur_image)[k]
        /\ \E k \in 1..Len(cur_image.hist) : cur_image.hist[k].t = "fit"
        /\ <<cur_image.w, cur_image.h>> = target_size_of(image_bytes.pic, cur_edits)
        /\ ret.kind = "none" => calls = <<>>
        /\ \A i \in 1..Len(calls) :
              /\ calls[i].base_image = cur_image
              /\ calls[i].config = cur_config
              /\ Returned(cur_config) = edits_to_config(cur_edits)

C14_Witness ==
    /\ Editing
    /\ lpc = "done"
    /\ ret.kind = "value"
    /\ StepsOf(calls[2].base_image) = <<1, 2, 3, 4>>

\* C15: the global brightness step runs only when overallBrightness differs
\* from 100; with 100, or with the option absent, the image handed to the
\* passes is the image that left the filter step.
C15_BrightnessNoOp ==
    Editing =>
        /\ Get(cur_edits, "overallBrightness", 100) = 100
            => cur_image = filtered_image(image_bytes.pic, cur_edits)
        /\ Get(cur_edits, "overallBrightness", 100) # 100
            => cur_image.hist
                 = Append(filtered_image(image_bytes.pic, cur_edits).hist,
                          Tr("overall_brightness", <<cur_edits["overallBrightness"]>>))
        /\ \A i \in 1..Len(calls) : calls[i].base_image = cur_image

C15_Witness ==
    /\ Editing
    /\ lpc = "done"
    /\ ret.kind = "value"
    /\ "overallBrightness" \in DOMAIN cur_edits
    /\ cur_edits["overallBrightness"] = 100
    /\ calls[1].base_image.hist # <<>>
    /\ calls[1].base_image.hist[Len(calls[1].base_image.hist)].t = "blur"

\* the ranges of the numeric edit inputs
NumericRanges ==
    [filterIntensity |-> <<0, 100>>, overallBrightness |-> <<0, 100>>,
     backgroundOpacity |-> <<0, 100>>, shadowIntensity |-> <<0, 100>>,
     textShadow |-> <<0, 100>>, borderRadius |-> <<0, 100>>,
     headlineSize |-> <<1, 400>>, bodySize |-> <<1, 400>>]

\* the edits map with every numeric input moved to the nearest bound
ClampedEdits(edits) ==
    [k \in DOMAIN edits |->
        IF k \in DOMAIN NumericRanges
        THEN Max(NumericRanges[k][1], Min(NumericRanges[k][2], edits[k]))
        ELSE edits[k]]

\* C16: every numeric edit input is clamped to its range before use: the
\* background and the configuration are those of the same edits with each
\* number moved to the nearest bound, and no font size below 1 reaches
\* font loading.
C16_InputsClamped ==
    Editing =>
        /\ cur_image = background(image_bytes.pic, ClampedEdits(cur_edits))
        /\ edits_to_config(cur_edits) = edits_to_config(ClampedEdits(cur_edits))
        /\ lpc = "pass1" => cur_config.headline_size >= 1 /\ cur_config.body_size >= 1

KnownLayouts == {"centered", "split", "left-aligned", "right-aligned"}

\* the call with the layout name replaced by the default
AsCentered(c) ==
    compose_layout(c.base_image, c.text_content, [c.config EXCEPT !.layout = "centered"],
                   c.features, c.render_text, installed)

\* C17: a layout name that is none of the four renders as centered does:
\* the same region and the same drawing, feature title and bullets included.
C17_UnknownLayoutAsCentered ==
    \A i \in 1..Len(calls) :
        calls[i].config.layout \notin KnownLayouts
            => /\ calls[i].result.geometry = AsCentered(calls[i]).geometry
               /\ calls[i].result.composed = AsCentered(calls[i]).composed

-----------------------------------------------------------------------------
(* Properties of colour resolution, stated of SpecColor *)

AllHex(t) == \A i \in 1..Len(t) : IsHex(t[i])

\* "#" followed by six hexadecimal digits
WellFormedHex(v) ==
    /\ v.type = "str" /\ Len(v.s) = 7 /\ v.s[1] = "#"
    /\ AllHex(SubSeq(v.s, 2, 7))

HexPair(t, i) == 16 * HexVal(t[i]) + HexVal(t[i + 1])

NumericTriple(v) ==
    /\ v.type = "list" /\ Len(v.items) = 3
    /\ \A i \in 1..3 : v.items[i].t = "int"

\* a string of the wrong length or with a non-hex character, or a list with
\* an element that is not a number
Malformed(v) ==
    \/ /\ v.type = "str"
       /\ Len(LStripHash(Strip(v.s))) # 6 \/ ~AllHex(LStripHash(Strip(v.s)))
    \/ /\ v.type = "list" /\ Len(v.items) >= 3
       /\ \E i \in 1..3 : v.items[i].t \notin {"int", "float"}

\* C9: _parse_color never raises; a well-formed #rrggbb string gives its
\* triple, a numeric triple gives that triple, and a malformed string or a
\* list of non-numbers gives the caller's default.
C9_ParseColorNeverRaises ==
    cpc = "parsed" =>
        /\ cv_result.kind = "value"
        /\ WellFormedHex(cv_value)
            => cv_result.value = <<HexPair(cv_value.s, 2), HexPair(cv_value.s, 4),
                                   HexPair(cv_value.s, 6)>>
        /\ NumericTriple(cv_value)
            => cv_result.value = <<cv_value.items[1].v, cv_value.items[2].v,
                                   cv_value.items[3].v>>
        /\ Malformed(cv_value) => cv_result.value = cv_default

IsRGB(c) == Len(c) = 3 /\ \A i \in 1..3 : c[i] \in 0..255

\* C10: every colour of a palette (text, accent, cta_bg, cta_text, panel) is
\* a triple of integers in 0..255, for every scheme and every edits map.
C10_PaletteInRange ==
    (cpc \in {"scheme", "edits"} /\ palette_out.kind = "value")
        => \A k \in {"text", "accent", "cta_bg", "cta_text", "panel"} :
             IsRGB(palette_out.value[k])

-----------------------------------------------------------------------------
(* Properties of the web application, stated of Spec *)

\* C2: with two requests processed concurrently, each response carries the
\* pamphlet image composed for that same request, also when both product
\* names map to the same output file.
C2_ResponseCarriesOwnImage ==
    \A r \in Requests :
        resp[r].status = 200 => resp[r].image = loc[r].pamphlet_data

SuccessSteps == <<"text", "edit", "image", "pass1", "pass2", "review", "open", "write">>

\* C8: generate_pamphlet returns success=true only after text generation,
\* image acquisition, both passes and the file write; when image
\* acquisition yields no data it returns an error without a success flag
\* and performs no layout, review or write; the handler answers 200 with
\* success only for a success result.
C8_SuccessOnlyWhenComplete ==
    \A r \in Requests :
        /\ loc[r].result.success => steps[r] = SuccessSteps
        /\ (loc[r].image_data = "none")
            => /\ loc[r].result = [success |-> FALSE, error |-> "Failed to generate image",
                                   filename |-> <<>>]
               /\ steps[r] = <<"text", "edit", "image">>
               /\ pc[r] \in {"respond", "done"}
               /\ pc[r] = "done" => resp[r].status = 500
        /\ (resp[r].status = 200 \/ resp[r].success)
            => /\ loc[r].result.success
               /\ resp[r].status = 200 /\ resp[r].success

C8_Witness ==
    \E r \in Requests : \E q \in Requests :
        /\ resp[r].status = 200
        /\ loc[q].image_data = "none"
        /\ resp[q].status = 500

\* the layout and the profile the claim names for a regeneration index
CycleLayout(i) ==
    CASE i % 4 = 0 -> "centered"
      [] i % 4 = 1 -> "split"
      [] i % 4 = 2 -> "left-aligned"
      [] i % 4 = 3 -> "right-aligned"

CycleProfile(i) ==
    CASE i % 4 = 0 -> "vibrant_action"
      [] i % 4 = 1 -> "premium_story"
      [] i % 4 = 2 -> "data_focused"
      [] i % 4 = 3 -> "lifestyle_mood"

TextGenerated(r) == loc[r].profile # "unset"
Composed(r) == loc[r].layout_choice # "unset"

\* C18: for every non-negative regeneration index i, create_pamphlet uses
\* the layout default_layout_cycle[i mod 4] (0 centered, 1 split,
\* 2 left-aligned, 3 right-aligned) and the text generator selects
\* VARIATION_PROFILES[i mod 4]; two requests with the same index get the same
\* layout and profile whatever else they carry, and indices that differ by
\* a multiple of 4 get the same layout.
C18_SelectionByIndex ==
    \A r \in Requests :
        /\ req[r].regeneration_index >= 0
        /\ TextGenerated(r) => loc[r].profile = CycleProfile(req[r].regeneration_index)
        /\ Composed(r) => loc[r].layout_choice = CycleLayout(req[r].regeneration_index)
        /\ \A q \in Requests :
            /\ (TextGenerated(r) /\ TextGenerated(q)
                    /\ req[r].regeneration_index = req[q].regeneration_index)
                => loc[r].profile = loc[q].profile
            /\ (Composed(r) /\ Composed(q)
                    /\ (req[r].regeneration_index - req[q].regeneration_index) % 4 = 0)
                => loc[r].layout_choice = loc[q].layout_choice

\* a first generation and its fourth regeneration, both composed centred
C18_Witness ==
    \E r \in Requests : \E q \in Requests :
        /\ req[r].regeneration_index = 0
        /\ req[q].regeneration_index = 4
        /\ Composed(r) /\ Composed(q)
        /\ loc[r].layout_choice = "centered"
        /\ loc[q].layout_choice = "centered"
        /\ loc[q].profile = "vibrant_action"

\* the steps of a run so far are the first steps of a complete run
InPipelineOrder(r) ==
    /\ Len(steps[r]) <= Len(SuccessSteps)
    /\ steps[r] = SubSeq(SuccessSteps, 1, Len(steps[r]))

\* C20: in every run of generate_pamphlet the steps occur in the order
\* text generation, content editing, background image acquisition, layout
\* composition, review, file save; every call to an external service
\* (Ollama, Stability AI) is made by text generation or by image
\* acquisition, before the first pass of composition starts, and none is
\* made during or after composition.
C20_ExternalCallsBeforeComposition ==
    \A r \in Requests :
        /\ InPipelineOrder(r)
        /\ \A k \in 1..Len(loc[r].external) :
            /\ loc[r].external[k].service \in {"ollama", "stability"}
            /\ loc[r].external[k].during \in {"text", "image"}
            /\ loc[r].external[k].service = "ollama" <=> loc[r].external[k].during = "text"
        /\ \A j \in 1..Len(steps[r]) :
            steps[r][j] = "pass1"
                => \A k \in 1..Len(loc[r].external) :
                    \E i \in 1..(j - 1) : steps[r][i] = loc[r].external[k].during
        /\ Len(loc[r].external) <= 5

\* a complete run that asked Ollama four times and Stability AI once
C20_Witness ==
    \E r \in Requests :
        /\ steps[r] = SuccessSteps
        /\ Len(loc[r].external) = 5
        /\ loc[r].external[1].service = "ollama"
        /\ loc[r].external[5].service = "stability"
        /\ loc[r].external[5].during = "image"

-----------------------------------------------------------------------------
(* Properties of the agent's enable flags, stated of SpecAgent *)

\* the steps of a successful run of an agent
StepsWith(a) ==
    <<"text">>
    \o (IF a.content_editing_agent THEN <<"edit">> ELSE <<>>)
    \o <<"image", "pass1", "pass2">>
    \o (IF a.review_agent THEN <<"review">> ELSE <<>>)
    \o <<"open", "write">>

\* generate_pamphlet has returned, on a request whose background was acquired
ReturnedWithImage(r) ==
    /\ req[r].complete
    /\ req[r].image = "picture"
    /\ pc[r] \in {"respond", "done"}

\* C19: for each of the 16 combinations of the four enable_* flags,
\* generate_pamphlet, given that image acquisition succeeds, generates
\* text, renders both passes, writes the file and returns success; a
\* disabled text or layout agent is replaced by the direct backend or
\* designer call, a disabled editing agent only skips the edit step, and
\* the response contains the key review exactly when the review agent is
\* enabled.
C19_AnyFlagsSucceed ==
    /\ agent \in Agents
    /\ \A r \in Requests :
        /\ ReturnedWithImage(r)
            => /\ loc[r].result.success
               /\ steps[r] = StepsWith(agent)
               /\ loc[r].text_by = IF agent.text_agent THEN "TextGenerationAgent"
                                   ELSE "OllamaTextGenerator"
               /\ loc[r].layout_by = IF agent.layout_agent THEN "LayoutFormattingAgent"
                                     ELSE "PamphletDesigner"
               /\ loc[r].text_content = IF agent.content_editing_agent THEN "edited"
                                        ELSE "generated"
               /\ loc[r].pamphlet_data = Png(r, req[r].png_len)
               /\ loc[r].layout_base = Png(r, req[r].png_len)
               /\ files[loc[r].result.filename] = loc[r].pamphlet_data
               /\ ("review" \in loc[r].response_keys) <=> agent.review_agent
               /\ {"success", "filename"} \subseteq loc[r].response_keys
        /\ (ReturnedWithImage(r) /\ pc[r] = "done")
            => /\ resp[r].status = 200
               /\ resp[r].image = loc[r].pamphlet_data

\* an agent with all four flags off has served a request
C19_Witness ==
    \E r \in Requests :
        /\ agent = Agent(FALSE, FALSE, FALSE, FALSE)
        /\ pc[r] = "done"
        /\ resp[r].status = 200
        /\ steps[r] = <<"text", "image", "pass1", "pass2", "open", "write">>
        /\ "review" \notin loc[r].response_keys

-----------------------------------------------------------------------------
(* Properties of text measurement and region geometry, stated of           *)
(* SpecMeasure                                                             *)

\* the words of the lines, in order
RECURSIVE ConcatWords(_)
ConcatWords(lines) ==
    IF lines = <<>> THEN <<>> ELSE Split(Head(lines)) \o ConcatWords(Tail(lines))

\* the line, and after a space the first word of the line that follows
WithNextWord(lines, i) == lines[i] \o <<" ">> \o Split(lines[i + 1])[1]

\* C11: _wrap_text packs the words greedily; no returned line is wider than
\* the available width in measured pixels unless it consists of exactly one
\* word that alone is wider; no word is split, lost or moved.
C11_WrapFits ==
    mpc = "wrapped" =>
        /\ ConcatWords(m_out) = Split(m_in.text)
        /\ \A i \in 1..Len(m_out) :
              /\ m_out[i] # <<>>
              /\ m_out[i] = Join(Split(m_out[i]))
              /\ TextWidth(m_in.font, m_out[i]) > m_in.max_width
                  => /\ Len(Split(m_out[i])) = 1
                     /\ Split(m_out[i])[1] \in WrapWords
              /\ i < Len(m_out)
                  => TextWidth(m_in.font, WithNextWord(m_out, i)) > m_in.max_width

C11_Witness ==
    /\ mpc = "wrapped"
    /\ Len(m_out) = 2
    /\ Len(Split(m_out[1])) = 2
    /\ TextWidth(m_in.font, m_out[1]) <= m_in.max_width
    /\ TextWidth(m_in.font, m_out[2]) > m_in.max_width

\* floor(0.08 W)
MarginOf(w) == (8 * w) \div 100

\* C13: with m = floor(0.08 W), the layouts centered, left-aligned and
\* right-aligned give a region of width W - 2m starting at x = m and ending
\* at W - m; split gives width floor(0.42 W) and x_start = W - width - m
\* (504, 96 and 600 for W = 1200); every region lies inside [m, W - m].
C13_RegionGeometry ==
    mpc = "region" =>
        /\ m_out.margin_x = MarginOf(m_in.width)
        /\ m_in.layout \in {"centered", "left-aligned", "right-aligned"}
            => /\ m_out.text_area_width = m_in.width - 2 * MarginOf(m_in.width)
               /\ m_out.x_start = MarginOf(m_in.width)
               /\ m_out.x_start + m_out.text_area_width
                    = m_in.width - MarginOf(m_in.width)
        /\ m_in.layout = "split"
            => /\ m_out.text_area_width = (42 * m_in.width) \div 100
               /\ m_out.x_start
                    = m_in.width - m_out.text_area_width - MarginOf(m_in.width)
        /\ (m_in.layout = "split" /\ m_in.width = 1200)
            => /\ m_out.text_area_width = 504
               /\ m_out.margin_x = 96
               /\ m_out.x_start = 600
        /\ m_out.x_start >= MarginOf(m_in.width)
        /\ m_out.x_start + m_out.text_area_width <= m_in.width - MarginOf(m_in.width)
        /\ m_out.panel_rect[1] = m_out.x_start
        /\ m_out.panel_rect[3] = m_out.x_start + m_out.text_area_width

C13_Witness ==
    /\ mpc = "region"
    /\ m_in.layout = "split"
    /\ m_in.width = 1200
    /\ m_out.x_start = 600

-----------------------------------------------------------------------------
(* Properties of the text stage, stated of SpecText *)

TextKeys == {"headline", "description", "call_to_action", "tagline"}

\* C21: for a request with a non-empty product_name and for every outcome
\* of each Ollama call (network error, empty response, whitespace-only
\* response, a response made only of quote characters, normal text),
\* generate_pamphlet_text returns a mapping with the keys headline,
\* description, call_to_action and tagline whose values are all non-empty
\* strings.
C21_RequiredFieldsNonEmpty ==
    (tpc = "generated" /\ t_in.request.product_name # <<>>)
        => /\ DOMAIN t_out = TextKeys
           /\ \A k \in TextKeys : t_out[k] # <<>>

Words(s) == Split(s)

\* white space collapsed to single spaces, none leading or trailing
Collapsed(s) ==
    /\ s = <<>> \/ (s[1] # " " /\ s[Len(s)] # " ")
    /\ \A i \in 1..(Len(s) - 1) : ~(s[i] = " " /\ s[i + 1] = " ")

Edited == tpc \in {"edited", "edited twice"}

\* C22: ContentEditingAgent.edit returns a mapping in which headline,
\* description, call_to_action and tagline have white space collapsed to
\* single spaces with none leading or trailing, the headline has at most
\* max_headline_words words, and the description has at most
\* max_description_chars characters followed by at most one ellipsis
\* character; a field already within its limit is changed only by
\* white-space normalisation.
C22_EditLimits ==
    Edited =>
        /\ DOMAIN t_out = TextKeys
        /\ \A k \in TextKeys : Collapsed(t_out[k])
        /\ Len(Words(t_out.headline)) <= t_in.max_headline_words
        /\ Len(t_out.description) <= t_in.max_description_chars + 1
        /\ Len(t_out.description) = t_in.max_description_chars + 1
            => t_out.description[Len(t_out.description)] = Ellipsis
        /\ Len(Words(t_in.text_content.headline)) <= t_in.max_headline_words
            => t_out.headline = Join(Words(t_in.text_content.headline))
        /\ Len(t_in.text_content.description) <= t_in.max_description_chars
            => t_out.description = Join(Words(t_in.text_content.description))
        /\ t_out.call_to_action = Join(Words(t_in.text_content.call_to_action))
        /\ t_out.tagline = Join(Words(t_in.text_content.tagline))

\* a headline cut to its first words and a description cut at a space
C22_Witness ==
    /\ tpc = "edited"
    /\ t_in.max_description_chars = 3
    /\ t_in.max_headline_words = 2
    /\ t_in.text_content.description = <<" ", "a", " ", " ", "a", "a">>
    /\ t_out.description = <<"a", Ellipsis>>
    /\ t_out.headline = <<"a", " ", "a">>
    /\ t_out.call_to_action = <<"a", " ", "a">>

\* C29: ContentEditingAgent.edit is idempotent and does not modify its
\* argument: edit(edit(t)) equals edit(t), also for a description that was
\* truncated and given an ellipsis and for a description without any space
\* in its first max_description_chars characters, and after the call the
\* mapping that was passed still has its original values.
C29_EditIdempotent ==
    /\ Edited => t_arg = t_in.text_content
    /\ tpc = "edited twice" => t_again = t_out

\* a description without a space in its first characters, cut and marked,
\* and edited once more
C29_Witness ==
    /\ tpc = "edited twice"
    /\ t_in.max_description_chars = 4
    /\ t_in.text_content.description = <<"a", "a", "a", "a", "a", "a">>
    /\ t_out.description = <<"a", "a", "a", "a", Ellipsis>>
    /\ t_again.description = t_out.description
    /\ t_arg.description = <<"a", "a", "a", "a", "a", "a">>

-----------------------------------------------------------------------------
(* Properties of repeated composition, stated of SpecRepeat *)

ArgsOf(c) ==
    <<c.call.base_image, c.call.text_content, c.call.config, c.call.features,
      c.call.render_text, c.inst>>

C30_WrapRoundTrip ==
    mpc = "wrapped" =>
        /\ Join(m_out) = Join(Split(m_in.text))
        /\ \A i \in 1..Len(m_out) : Len(m_out[i]) > 0
        /\ Len(m_out) <= Len(Split(m_in.text))

\* a text with white space to spare, one word to a line, the widest word
\* wider than the width
C30_Witness ==
    /\ mpc = "wrapped"
    /\ m_in.text # Join(Split(m_in.text))
    /\ Len(Split(m_in.text)) = 3
    /\ Len(m_out) = 3
    /\ \E i \in 1..3 : TextWidth(m_in.font, m_out[i]) > m_in.max_width

-----------------------------------------------------------------------------
(* Properties of cropping, stated of SpecMeasure *)

Unchanged == m_out = Picture(1, m_in.width, m_in.height)
\* the rectangle of the crop that was made
CropBox == m_out.hist[1].args

\* a rectangle inside the image, with equal margins on opposite sides up
\* to the odd pixel
CentredInside ==
    /\ Len(m_out.hist) = 1
    /\ m_out.hist[1].t = "crop"
    /\ 0 <= CropBox[1] /\ CropBox[1] <= CropBox[3] /\ CropBox[3] <= m_in.width
    /\ 0 <= CropBox[2] /\ CropBox[2] <= CropBox[4] /\ CropBox[4] <= m_in.height
    /\ (m_in.width - CropBox[3]) - CropBox[1] \in {0, 1}
    /\ (m_in.height - CropBox[4]) - CropBox[2] \in {0, 1}
    /\ m_out.w = CropBox[3] - CropBox[1]
    /\ m_out.h = CropBox[4] - CropBox[2]

\* C26 as stated: for every input size (w, h), _apply_cropping returns for
\* square an image min(w,h) x min(w,h), for portrait an image of width
\* floor(0.75 h) and height h, for landscape an image of height
\* floor(w / 1.33) and width w, for none or an unknown name the image
\* unchanged; the crop rectangle is centred and inside the original image.
C26_CropSizes ==
    mpc = "cropped" =>
        /\ m_in.crop_type = "square"
            => /\ m_out.w = Min(m_in.width, m_in.height)
               /\ m_out.h = Min(m_in.width, m_in.height)
               /\ CentredInside
        /\ m_in.crop_type = "portrait"
            => /\ m_out.w = (75 * m_in.height) \div 100
               /\ m_out.h = m_in.height
               /\ CentredInside
        /\ m_in.crop_type = "landscape"
            => /\ m_out.h = (100 * m_in.width) \div 133
               /\ m_out.w = m_in.width
               /\ CentredInside
        /\ m_in.crop_type \notin {"square", "portrait", "landscape"} => Unchanged

\* C26 amended: portrait crops to width floor(0.75 h) only when that is
\* less than w, landscape crops to height floor(w / 1.33) only when that
\* is less than h, and otherwise the image is returned unchanged; square,
\* none and unknown names are as stated, and every crop that is made is
\* centred and inside the original image.
C26_CropSizesWhenSmaller ==
    mpc = "cropped" =>
        /\ m_in.crop_type = "square"
            => /\ m_out.w = Min(m_in.width, m_in.height)
               /\ m_out.h = Min(m_in.width, m_in.height)
               /\ CentredInside
        /\ (m_in.crop_type = "portrait" /\ (75 * m_in.height) \div 100 < m_in.width)
            => /\ m_out.w = (75 * m_in.height) \div 100
               /\ m_out.h = m_in.height
               /\ CentredInside
        /\ (m_in.crop_type = "portrait" /\ (75 * m_in.height) \div 100 >= m_in.width)
            => Unchanged
        /\ (m_in.crop_type = "landscape" /\ (100 * m_in.width) \div 133 < m_in.height)
            => /\ m_out.h = (100 * m_in.width) \div 133
               /\ m_out.w = m_in.width
               /\ CentredInside
        /\ (m_in.crop_type = "landscape" /\ (100 * m_in.width) \div 133 >= m_in.height)
            => Unchanged
        /\ m_in.crop_type \notin {"square", "portrait", "landscape"} => Unchanged

\* a portrait crop asked of an image that is too narrow for it
C26_Witness ==
    /\ mpc = "cropped"
    /\ m_in.crop_type = "portrait"
    /\ m_in.width = 5
    /\ m_in.height = 8
    /\ m_out.w = 5
    /\ m_out.hist = <<>>

====
